---- MODULE Spec2Model ----
(***************************************************************************)
(* A model of the request-lifecycle engine of the proxy: the key pool      *)
(* (KeyPool over its per-service KeyProvider), the partitioned admission   *)
(* queue, the response pipeline with its upstream-error handlers, and the  *)
(* request preprocessors.                                                  *)
(***************************************************************************)
EXTENDS Integers, Sequences, FiniteSets, TLC

(***************************************************************************)
(* Text.  TLC treats strings as atoms, so every string whose characters    *)
(* the code inspects (startsWith, includes, match) is looked up in Chars,  *)
(* which spells it out character by character.                             *)
(***************************************************************************)
\* BEGIN Chars
Chars ==
  ("" :> <<>>) @@
  ("-" :> <<"-">>) @@
  ("-03-202" :> <<"-", "0", "3", "-", "2", "0", "2">>) @@
  ("-100k" :> <<"-", "1", "0", "0", "k">>) @@
  ("-4" :> <<"-", "4">>) @@
  ("-latest" :> <<"-", "l", "a", "t", "e", "s", "t">>) @@
  ("-nonthinking" :> <<"-", "n", "o", "n", "t", "h", "i", "n", "k", "i", "n", "g">>) @@
  ("-preview" :> <<"-", "p", "r", "e", "v", "i", "e", "w">>) @@
  ("-thinking" :> <<"-", "t", "h", "i", "n", "k", "i", "n", "g">>) @@
  ("-v" :> <<"-", "v">>) @@
  ("-vision" :> <<"-", "v", "i", "s", "i", "o", "n">>) @@
  ("." :> <<".">>) @@
  ("0125" :> <<"0", "1", "2", "5">>) @@
  ("1106" :> <<"1", "1", "0", "6">>) @@
  ("20240620" :> <<"2", "0", "2", "4", "0", "6", "2", "0">>) @@
  ("3" :> <<"3">>) @@
  ("3.0" :> <<"3", ".", "0">>) @@
  ("3.5" :> <<"3", ".", "5">>) @@
  ("3.7" :> <<"3", ".", "7">>) @@
  ("5" :> <<"5">>) @@
  ("5-turbo" :> <<"5", "-", "t", "u", "r", "b", "o">>) @@
  ("5-turbo-16k" :> <<"5", "-", "t", "u", "r", "b", "o", "-", "1", "6", "k">>) @@
  (":" :> <<":">>) @@
  ("@" :> <<"@">>) @@
  ("API Key not found. Please pass a valid API key." :> <<"A", "P", "I", " ", "K", "e", "y", " ", "n", "o", "t", " ", "f", "o", "u", "n", "d", ".", " ", "P", "l", "e", "a", "s", "e", " ", "p", "a", "s", "s", " ", "a", " ", "v", "a", "l", "i", "d", " ", "A", "P", "I", " ", "k", "e", "y", ".">>) @@
  ("API key expired" :> <<"A", "P", "I", " ", "k", "e", "y", " ", "e", "x", "p", "i", "r", "e", "d">>) @@
  ("API key not valid" :> <<"A", "P", "I", " ", "k", "e", "y", " ", "n", "o", "t", " ", "v", "a", "l", "i", "d">>) @@
  ("Claude-3-haiku" :> <<"C", "l", "a", "u", "d", "e", "-", "3", "-", "h", "a", "i", "k", "u">>) @@
  ("GenerateContentRequestsPerMinutePerProjectPerRegion" :> <<"G", "e", "n", "e", "r", "a", "t", "e", "C", "o", "n", "t", "e", "n", "t", "R", "e", "q", "u", "e", "s", "t", "s", "P", "e", "r", "M", "i", "n", "u", "t", "e", "P", "e", "r", "P", "r", "o", "j", "e", "c", "t", "P", "e", "r", "R", "e", "g", "i", "o", "n">>) @@
  ("Invalid request." :> <<"I", "n", "v", "a", "l", "i", "d", " ", "r", "e", "q", "u", "e", "s", "t", ".">>) @@
  ("Multimodal requests are not enabled for this API key." :> <<"M", "u", "l", "t", "i", "m", "o", "d", "a", "l", " ", "r", "e", "q", "u", "e", "s", "t", "s", " ", "a", "r", "e", " ", "n", "o", "t", " ", "e", "n", "a", "b", "l", "e", "d", " ", "f", "o", "r", " ", "t", "h", "i", "s", " ", "A", "P", "I", " ", "k", "e", "y", ".">>) @@
  ("Quota exceeded for quota metric 'Generate Content API requests per minute'." :> <<"Q", "u", "o", "t", "a", " ", "e", "x", "c", "e", "e", "d", "e", "d", " ", "f", "o", "r", " ", "q", "u", "o", "t", "a", " ", "m", "e", "t", "r", "i", "c", " ", "'", "G", "e", "n", "e", "r", "a", "t", "e", " ", "C", "o", "n", "t", "e", "n", "t", " ", "A", "P", "I", " ", "r", "e", "q", "u", "e", "s", "t", "s", " ", "p", "e", "r", " ", "m", "i", "n", "u", "t", "e", "'", ".">>) @@
  ("Rate limit reached for gpt-4 on requests per day (RPD): Limit 200, Used 200." :> <<"R", "a", "t", "e", " ", "l", "i", "m", "i", "t", " ", "r", "e", "a", "c", "h", "e", "d", " ", "f", "o", "r", " ", "g", "p", "t", "-", "4", " ", "o", "n", " ", "r", "e", "q", "u", "e", "s", "t", "s", " ", "p", "e", "r", " ", "d", "a", "y", " ", "(", "R", "P", "D", ")", ":", " ", "L", "i", "m", "i", "t", " ", "2", "0", "0", ",", " ", "U", "s", "e", "d", " ", "2", "0", "0", ".">>) @@
  ("Rate limit reached for gpt-4 on tokens per min (TPM): Limit 10000." :> <<"R", "a", "t", "e", " ", "l", "i", "m", "i", "t", " ", "r", "e", "a", "c", "h", "e", "d", " ", "f", "o", "r", " ", "g", "p", "t", "-", "4", " ", "o", "n", " ", "t", "o", "k", "e", "n", "s", " ", "p", "e", "r", " ", "m", "i", "n", " ", "(", "T", "P", "M", ")", ":", " ", "L", "i", "m", "i", "t", " ", "1", "0", "0", "0", "0", ".">>) @@
  ("Resource has been exhausted (e.g. check quota)." :> <<"R", "e", "s", "o", "u", "r", "c", "e", " ", "h", "a", "s", " ", "b", "e", "e", "n", " ", "e", "x", "h", "a", "u", "s", "t", "e", "d", " ", "(", "e", ".", "g", ".", " ", "c", "h", "e", "c", "k", " ", "q", "u", "o", "t", "a", ")", ".">>) @@
  ("This organization has been disabled." :> <<"T", "h", "i", "s", " ", "o", "r", "g", "a", "n", "i", "z", "a", "t", "i", "o", "n", " ", "h", "a", "s", " ", "b", "e", "e", "n", " ", "d", "i", "s", "a", "b", "l", "e", "d", ".">>) @@
  ("Usage blocked until 2024-03-01T00:00:00+00:00 due to user specified spend limits." :> <<"U", "s", "a", "g", "e", " ", "b", "l", "o", "c", "k", "e", "d", " ", "u", "n", "t", "i", "l", " ", "2", "0", "2", "4", "-", "0", "3", "-", "0", "1", "T", "0", "0", ":", "0", "0", ":", "0", "0", "+", "0", "0", ":", "0", "0", " ", "d", "u", "e", " ", "t", "o", " ", "u", "s", "e", "r", " ", "s", "p", "e", "c", "i", "f", "i", "e", "d", " ", "s", "p", "e", "n", "d", " ", "l", "i", "m", "i", "t", "s", ".">>) @@
  ("You don't have access to the model with the specified model ID." :> <<"Y", "o", "u", " ", "d", "o", "n", "'", "t", " ", "h", "a", "v", "e", " ", "a", "c", "c", "e", "s", "s", " ", "t", "o", " ", "t", "h", "e", " ", "m", "o", "d", "e", "l", " ", "w", "i", "t", "h", " ", "t", "h", "e", " ", "s", "p", "e", "c", "i", "f", "i", "e", "d", " ", "m", "o", "d", "e", "l", " ", "I", "D", ".">>) @@
  ("You will regain access on" :> <<"Y", "o", "u", " ", "w", "i", "l", "l", " ", "r", "e", "g", "a", "i", "n", " ", "a", "c", "c", "e", "s", "s", " ", "o", "n">>) @@
  ("\"quota_limit_value\":\"0\"" :> <<"\"", "q", "u", "o", "t", "a", "_", "l", "i", "m", "i", "t", "_", "v", "a", "l", "u", "e", "\"", ":", "\"", "0", "\"">>) @@
  ("anthropic" :> <<"a", "n", "t", "h", "r", "o", "p", "i", "c">>) @@
  ("anthropic.claude" :> <<"a", "n", "t", "h", "r", "o", "p", "i", "c", ".", "c", "l", "a", "u", "d", "e">>) @@
  ("anthropic.claude-" :> <<"a", "n", "t", "h", "r", "o", "p", "i", "c", ".", "c", "l", "a", "u", "d", "e", "-">>) @@
  ("anthropic.claude-3" :> <<"a", "n", "t", "h", "r", "o", "p", "i", "c", ".", "c", "l", "a", "u", "d", "e", "-", "3">>) @@
  ("anthropic.claude-3-sonnet-20240229-v1:0" :> <<"a", "n", "t", "h", "r", "o", "p", "i", "c", ".", "c", "l", "a", "u", "d", "e", "-", "3", "-", "s", "o", "n", "n", "e", "t", "-", "2", "0", "2", "4", "0", "2", "2", "9", "-", "v", "1", ":", "0">>) @@
  ("anthropic.claude-v2:" :> <<"a", "n", "t", "h", "r", "o", "p", "i", "c", ".", "c", "l", "a", "u", "d", "e", "-", "v", "2", ":">>) @@
  ("anthropic.claude-v2:1" :> <<"a", "n", "t", "h", "r", "o", "p", "i", "c", ".", "c", "l", "a", "u", "d", "e", "-", "v", "2", ":", "1">>) @@
  ("azure" :> <<"a", "z", "u", "r", "e">>) @@
  ("azure-" :> <<"a", "z", "u", "r", "e", "-">>) @@
  ("bard" :> <<"b", "a", "r", "d">>) @@
  ("chatgpt-4o" :> <<"c", "h", "a", "t", "g", "p", "t", "-", "4", "o">>) @@
  ("claude" :> <<"c", "l", "a", "u", "d", "e">>) @@
  ("claude-" :> <<"c", "l", "a", "u", "d", "e", "-">>) @@
  ("claude-2" :> <<"c", "l", "a", "u", "d", "e", "-", "2">>) @@
  ("claude-2.0" :> <<"c", "l", "a", "u", "d", "e", "-", "2", ".", "0">>) @@
  ("claude-2.1" :> <<"c", "l", "a", "u", "d", "e", "-", "2", ".", "1">>) @@
  ("claude-3" :> <<"c", "l", "a", "u", "d", "e", "-", "3">>) @@
  ("claude-3-5-haiku" :> <<"c", "l", "a", "u", "d", "e", "-", "3", "-", "5", "-", "h", "a", "i", "k", "u">>) @@
  ("claude-3-5-haiku-latest" :> <<"c", "l", "a", "u", "d", "e", "-", "3", "-", "5", "-", "h", "a", "i", "k", "u", "-", "l", "a", "t", "e", "s", "t">>) @@
  ("claude-3-5-haiku@20241022" :> <<"c", "l", "a", "u", "d", "e", "-", "3", "-", "5", "-", "h", "a", "i", "k", "u", "@", "2", "0", "2", "4", "1", "0", "2", "2">>) @@
  ("claude-3-5-opus" :> <<"c", "l", "a", "u", "d", "e", "-", "3", "-", "5", "-", "o", "p", "u", "s">>) @@
  ("claude-3-5-sonnet-20240620" :> <<"c", "l", "a", "u", "d", "e", "-", "3", "-", "5", "-", "s", "o", "n", "n", "e", "t", "-", "2", "0", "2", "4", "0", "6", "2", "0">>) @@
  ("claude-3-5-sonnet-20241022" :> <<"c", "l", "a", "u", "d", "e", "-", "3", "-", "5", "-", "s", "o", "n", "n", "e", "t", "-", "2", "0", "2", "4", "1", "0", "2", "2">>) @@
  ("claude-3-5-sonnet-latest" :> <<"c", "l", "a", "u", "d", "e", "-", "3", "-", "5", "-", "s", "o", "n", "n", "e", "t", "-", "l", "a", "t", "e", "s", "t">>) @@
  ("claude-3-5-sonnet-v2@20241022" :> <<"c", "l", "a", "u", "d", "e", "-", "3", "-", "5", "-", "s", "o", "n", "n", "e", "t", "-", "v", "2", "@", "2", "0", "2", "4", "1", "0", "2", "2">>) @@
  ("claude-3-5-sonnet@20240620" :> <<"c", "l", "a", "u", "d", "e", "-", "3", "-", "5", "-", "s", "o", "n", "n", "e", "t", "@", "2", "0", "2", "4", "0", "6", "2", "0">>) @@
  ("claude-3-7-opus" :> <<"c", "l", "a", "u", "d", "e", "-", "3", "-", "7", "-", "o", "p", "u", "s">>) @@
  ("claude-3-7-sonnet" :> <<"c", "l", "a", "u", "d", "e", "-", "3", "-", "7", "-", "s", "o", "n", "n", "e", "t">>) @@
  ("claude-3-7-sonnet@20250219" :> <<"c", "l", "a", "u", "d", "e", "-", "3", "-", "7", "-", "s", "o", "n", "n", "e", "t", "@", "2", "0", "2", "5", "0", "2", "1", "9">>) @@
  ("claude-3-OPUS" :> <<"c", "l", "a", "u", "d", "e", "-", "3", "-", "O", "P", "U", "S">>) @@
  ("claude-3-haiku" :> <<"c", "l", "a", "u", "d", "e", "-", "3", "-", "h", "a", "i", "k", "u">>) @@
  ("claude-3-haiku@20240307" :> <<"c", "l", "a", "u", "d", "e", "-", "3", "-", "h", "a", "i", "k", "u", "@", "2", "0", "2", "4", "0", "3", "0", "7">>) @@
  ("claude-3-opus" :> <<"c", "l", "a", "u", "d", "e", "-", "3", "-", "o", "p", "u", "s">>) @@
  ("claude-3-opus@20240229" :> <<"c", "l", "a", "u", "d", "e", "-", "3", "-", "o", "p", "u", "s", "@", "2", "0", "2", "4", "0", "2", "2", "9">>) @@
  ("claude-3-sonnet" :> <<"c", "l", "a", "u", "d", "e", "-", "3", "-", "s", "o", "n", "n", "e", "t">>) @@
  ("claude-3-sonnet@20240229" :> <<"c", "l", "a", "u", "d", "e", "-", "3", "-", "s", "o", "n", "n", "e", "t", "@", "2", "0", "2", "4", "0", "2", "2", "9">>) @@
  ("claude-3.0-opus" :> <<"c", "l", "a", "u", "d", "e", "-", "3", ".", "0", "-", "o", "p", "u", "s">>) @@
  ("claude-3.5-sonnet" :> <<"c", "l", "a", "u", "d", "e", "-", "3", ".", "5", "-", "s", "o", "n", "n", "e", "t">>) @@
  ("claude-3.7-sonnet-latest" :> <<"c", "l", "a", "u", "d", "e", "-", "3", ".", "7", "-", "s", "o", "n", "n", "e", "t", "-", "l", "a", "t", "e", "s", "t">>) @@
  ("claude-35-sonnet" :> <<"c", "l", "a", "u", "d", "e", "-", "3", "5", "-", "s", "o", "n", "n", "e", "t">>) @@
  ("claude-4-sonnet" :> <<"c", "l", "a", "u", "d", "e", "-", "4", "-", "s", "o", "n", "n", "e", "t">>) @@
  ("claude-instant-1" :> <<"c", "l", "a", "u", "d", "e", "-", "i", "n", "s", "t", "a", "n", "t", "-", "1">>) @@
  ("claude-opus-4-20250514" :> <<"c", "l", "a", "u", "d", "e", "-", "o", "p", "u", "s", "-", "4", "-", "2", "0", "2", "5", "0", "5", "1", "4">>) @@
  ("claude-v1" :> <<"c", "l", "a", "u", "d", "e", "-", "v", "1">>) @@
  ("codestral" :> <<"c", "o", "d", "e", "s", "t", "r", "a", "l">>) @@
  ("codex-mini" :> <<"c", "o", "d", "e", "x", "-", "m", "i", "n", "i">>) @@
  ("cohere" :> <<"c", "o", "h", "e", "r", "e">>) @@
  ("command" :> <<"c", "o", "m", "m", "a", "n", "d">>) @@
  ("command-a-03-2025" :> <<"c", "o", "m", "m", "a", "n", "d", "-", "a", "-", "0", "3", "-", "2", "0", "2", "5">>) @@
  ("command-r" :> <<"c", "o", "m", "m", "a", "n", "d", "-", "r">>) @@
  ("credential is only authorized for use with Claude Code" :> <<"c", "r", "e", "d", "e", "n", "t", "i", "a", "l", " ", "i", "s", " ", "o", "n", "l", "y", " ", "a", "u", "t", "h", "o", "r", "i", "z", "e", "d", " ", "f", "o", "r", " ", "u", "s", "e", " ", "w", "i", "t", "h", " ", "C", "l", "a", "u", "d", "e", " ", "C", "o", "d", "e">>) @@
  ("credit balance is too low" :> <<"c", "r", "e", "d", "i", "t", " ", "b", "a", "l", "a", "n", "c", "e", " ", "i", "s", " ", "t", "o", "o", " ", "l", "o", "w">>) @@
  ("d" :> <<"d">>) @@
  ("dall-e" :> <<"d", "a", "l", "l", "-", "e">>) @@
  ("dall-e-" :> <<"d", "a", "l", "l", "-", "e", "-">>) @@
  ("dall-e-3" :> <<"d", "a", "l", "l", "-", "e", "-", "3">>) @@
  ("deepseek" :> <<"d", "e", "e", "p", "s", "e", "e", "k">>) @@
  ("deepseek-chat" :> <<"d", "e", "e", "p", "s", "e", "e", "k", "-", "c", "h", "a", "t">>) @@
  ("flash" :> <<"f", "l", "a", "s", "h">>) @@
  ("free tier" :> <<"f", "r", "e", "e", " ", "t", "i", "e", "r">>) @@
  ("free_tier" :> <<"f", "r", "e", "e", "_", "t", "i", "e", "r">>) @@
  ("gcp" :> <<"g", "c", "p">>) @@
  ("gemini" :> <<"g", "e", "m", "i", "n", "i">>) @@
  ("gemini-" :> <<"g", "e", "m", "i", "n", "i", "-">>) @@
  ("gemini-1.5-flash" :> <<"g", "e", "m", "i", "n", "i", "-", "1", ".", "5", "-", "f", "l", "a", "s", "h">>) @@
  ("gemini-1.5-pro" :> <<"g", "e", "m", "i", "n", "i", "-", "1", ".", "5", "-", "p", "r", "o">>) @@
  ("google-ai" :> <<"g", "o", "o", "g", "l", "e", "-", "a", "i">>) @@
  ("gpt" :> <<"g", "p", "t">>) @@
  ("gpt-3" :> <<"g", "p", "t", "-", "3">>) @@
  ("gpt-3.5-turbo" :> <<"g", "p", "t", "-", "3", ".", "5", "-", "t", "u", "r", "b", "o">>) @@
  ("gpt-3.5-turbo-16k" :> <<"g", "p", "t", "-", "3", ".", "5", "-", "t", "u", "r", "b", "o", "-", "1", "6", "k">>) @@
  ("gpt-35-turbo" :> <<"g", "p", "t", "-", "3", "5", "-", "t", "u", "r", "b", "o">>) @@
  ("gpt-4" :> <<"g", "p", "t", "-", "4">>) @@
  ("gpt-4-" :> <<"g", "p", "t", "-", "4", "-">>) @@
  ("gpt-4-32k" :> <<"g", "p", "t", "-", "4", "-", "3", "2", "k">>) @@
  ("gpt-4-32k-" :> <<"g", "p", "t", "-", "4", "-", "3", "2", "k", "-">>) @@
  ("gpt-4-turbo" :> <<"g", "p", "t", "-", "4", "-", "t", "u", "r", "b", "o">>) @@
  ("gpt-4.1" :> <<"g", "p", "t", "-", "4", ".", "1">>) @@
  ("gpt-4.1-mini" :> <<"g", "p", "t", "-", "4", ".", "1", "-", "m", "i", "n", "i">>) @@
  ("gpt-4.1-nano" :> <<"g", "p", "t", "-", "4", ".", "1", "-", "n", "a", "n", "o">>) @@
  ("gpt-4.5" :> <<"g", "p", "t", "-", "4", ".", "5">>) @@
  ("gpt-4o" :> <<"g", "p", "t", "-", "4", "o">>) @@
  ("gpt-4o-mini" :> <<"g", "p", "t", "-", "4", "o", "-", "m", "i", "n", "i">>) @@
  ("gpt-image" :> <<"g", "p", "t", "-", "i", "m", "a", "g", "e">>) @@
  ("grok" :> <<"g", "r", "o", "k">>) @@
  ("grok-3" :> <<"g", "r", "o", "k", "-", "3">>) @@
  ("grok-4" :> <<"g", "r", "o", "k", "-", "4">>) @@
  ("haiku" :> <<"h", "a", "i", "k", "u">>) @@
  ("imagen" :> <<"i", "m", "a", "g", "e", "n">>) @@
  ("init" :> <<"i", "n", "i", "t">>) @@
  ("instant-" :> <<"i", "n", "s", "t", "a", "n", "t", "-">>) @@
  ("k1" :> <<"k", "1">>) @@
  ("kimi-k2" :> <<"k", "i", "m", "i", "-", "k", "2">>) @@
  ("kimi-k2-0711-preview" :> <<"k", "i", "m", "i", "-", "k", "2", "-", "0", "7", "1", "1", "-", "p", "r", "e", "v", "i", "e", "w">>) @@
  ("latest" :> <<"l", "a", "t", "e", "s", "t">>) @@
  ("magistral" :> <<"m", "a", "g", "i", "s", "t", "r", "a", "l">>) @@
  ("magistral-medium-latest" :> <<"m", "a", "g", "i", "s", "t", "r", "a", "l", "-", "m", "e", "d", "i", "u", "m", "-", "l", "a", "t", "e", "s", "t">>) @@
  ("magistral-small-latest" :> <<"m", "a", "g", "i", "s", "t", "r", "a", "l", "-", "s", "m", "a", "l", "l", "-", "l", "a", "t", "e", "s", "t">>) @@
  ("mathstral" :> <<"m", "a", "t", "h", "s", "t", "r", "a", "l">>) @@
  ("ministral-3b" :> <<"m", "i", "n", "i", "s", "t", "r", "a", "l", "-", "3", "b">>) @@
  ("ministral-8b" :> <<"m", "i", "n", "i", "s", "t", "r", "a", "l", "-", "8", "b">>) @@
  ("mistral" :> <<"m", "i", "s", "t", "r", "a", "l">>) @@
  ("mistral-embed" :> <<"m", "i", "s", "t", "r", "a", "l", "-", "e", "m", "b", "e", "d">>) @@
  ("mistral-large" :> <<"m", "i", "s", "t", "r", "a", "l", "-", "l", "a", "r", "g", "e">>) @@
  ("mistral-large-latest" :> <<"m", "i", "s", "t", "r", "a", "l", "-", "l", "a", "r", "g", "e", "-", "l", "a", "t", "e", "s", "t">>) @@
  ("mistral-medium" :> <<"m", "i", "s", "t", "r", "a", "l", "-", "m", "e", "d", "i", "u", "m">>) @@
  ("mistral-medium-2505" :> <<"m", "i", "s", "t", "r", "a", "l", "-", "m", "e", "d", "i", "u", "m", "-", "2", "5", "0", "5">>) @@
  ("mistral-small" :> <<"m", "i", "s", "t", "r", "a", "l", "-", "s", "m", "a", "l", "l">>) @@
  ("mistral-tiny" :> <<"m", "i", "s", "t", "r", "a", "l", "-", "t", "i", "n", "y">>) @@
  ("models" :> <<"m", "o", "d", "e", "l", "s">>) @@
  ("models/" :> <<"m", "o", "d", "e", "l", "s", "/">>) @@
  ("models/bard-1" :> <<"m", "o", "d", "e", "l", "s", "/", "b", "a", "r", "d", "-", "1">>) @@
  ("models/gemini-pro" :> <<"m", "o", "d", "e", "l", "s", "/", "g", "e", "m", "i", "n", "i", "-", "p", "r", "o">>) @@
  ("modelsFetched" :> <<"m", "o", "d", "e", "l", "s", "F", "e", "t", "c", "h", "e", "d">>) @@
  ("modelsGet" :> <<"m", "o", "d", "e", "l", "s", "G", "e", "t">>) @@
  ("moonshot" :> <<"m", "o", "o", "n", "s", "h", "o", "t">>) @@
  ("moonshot-v1-8k" :> <<"m", "o", "o", "n", "s", "h", "o", "t", "-", "v", "1", "-", "8", "k">>) @@
  ("multimodal" :> <<"m", "u", "l", "t", "i", "m", "o", "d", "a", "l">>) @@
  ("none" :> <<"n", "o", "n", "e">>) @@
  ("o1" :> <<"o", "1">>) @@
  ("o1-mini" :> <<"o", "1", "-", "m", "i", "n", "i">>) @@
  ("o1-preview" :> <<"o", "1", "-", "p", "r", "e", "v", "i", "e", "w">>) @@
  ("o1-pro" :> <<"o", "1", "-", "p", "r", "o">>) @@
  ("o3" :> <<"o", "3">>) @@
  ("o3-mini" :> <<"o", "3", "-", "m", "i", "n", "i">>) @@
  ("o3-pro" :> <<"o", "3", "-", "p", "r", "o">>) @@
  ("o4-mini" :> <<"o", "4", "-", "m", "i", "n", "i">>) @@
  ("on requests per day" :> <<"o", "n", " ", "r", "e", "q", "u", "e", "s", "t", "s", " ", "p", "e", "r", " ", "d", "a", "y">>) @@
  ("open-codestral-mamba" :> <<"o", "p", "e", "n", "-", "c", "o", "d", "e", "s", "t", "r", "a", "l", "-", "m", "a", "m", "b", "a">>) @@
  ("open-mistral-7b" :> <<"o", "p", "e", "n", "-", "m", "i", "s", "t", "r", "a", "l", "-", "7", "b">>) @@
  ("open-mistral-nemo" :> <<"o", "p", "e", "n", "-", "m", "i", "s", "t", "r", "a", "l", "-", "n", "e", "m", "o">>) @@
  ("open-mixtral-8x22b" :> <<"o", "p", "e", "n", "-", "m", "i", "x", "t", "r", "a", "l", "-", "8", "x", "2", "2", "b">>) @@
  ("open-mixtral-8x7b" :> <<"o", "p", "e", "n", "-", "m", "i", "x", "t", "r", "a", "l", "-", "8", "x", "7", "b">>) @@
  ("operation not allowed" :> <<"o", "p", "e", "r", "a", "t", "i", "o", "n", " ", "n", "o", "t", " ", "a", "l", "l", "o", "w", "e", "d">>) @@
  ("opus" :> <<"o", "p", "u", "s">>) @@
  ("organization has been disabled" :> <<"o", "r", "g", "a", "n", "i", "z", "a", "t", "i", "o", "n", " ", "h", "a", "s", " ", "b", "e", "e", "n", " ", "d", "i", "s", "a", "b", "l", "e", "d">>) @@
  ("pass a valid API" :> <<"p", "a", "s", "s", " ", "a", " ", "v", "a", "l", "i", "d", " ", "A", "P", "I">>) @@
  ("pixtral" :> <<"p", "i", "x", "t", "r", "a", "l">>) @@
  ("pixtral-12b" :> <<"p", "i", "x", "t", "r", "a", "l", "-", "1", "2", "b">>) @@
  ("pixtral-12b-2409" :> <<"p", "i", "x", "t", "r", "a", "l", "-", "1", "2", "b", "-", "2", "4", "0", "9">>) @@
  ("pixtral-large" :> <<"p", "i", "x", "t", "r", "a", "l", "-", "l", "a", "r", "g", "e">>) @@
  ("please enable billing" :> <<"p", "l", "e", "a", "s", "e", " ", "e", "n", "a", "b", "l", "e", " ", "b", "i", "l", "l", "i", "n", "g">>) @@
  ("pro" :> <<"p", "r", "o">>) @@
  ("prompt must start with \"\n\nHuman:\" turn" :> <<"p", "r", "o", "m", "p", "t", " ", "m", "u", "s", "t", " ", "s", "t", "a", "r", "t", " ", "w", "i", "t", "h", " ", "\"", "\n", "\n", "H", "u", "m", "a", "n", ":", "\"", " ", "t", "u", "r", "n">>) @@
  ("quota exceeded" :> <<"q", "u", "o", "t", "a", " ", "e", "x", "c", "e", "e", "d", "e", "d">>) @@
  ("quota limit" :> <<"q", "u", "o", "t", "a", " ", "l", "i", "m", "i", "t">>) @@
  ("qwen" :> <<"q", "w", "e", "n">>) @@
  ("qwen-max" :> <<"q", "w", "e", "n", "-", "m", "a", "x">>) @@
  ("qwen-max-2025-01-25" :> <<"q", "w", "e", "n", "-", "m", "a", "x", "-", "2", "0", "2", "5", "-", "0", "1", "-", "2", "5">>) @@
  ("qwen-max-latest" :> <<"q", "w", "e", "n", "-", "m", "a", "x", "-", "l", "a", "t", "e", "s", "t">>) @@
  ("qwen-max-nonthinking" :> <<"q", "w", "e", "n", "-", "m", "a", "x", "-", "n", "o", "n", "t", "h", "i", "n", "k", "i", "n", "g">>) @@
  ("qwen-plus" :> <<"q", "w", "e", "n", "-", "p", "l", "u", "s">>) @@
  ("qwen-plus-2025-01-25" :> <<"q", "w", "e", "n", "-", "p", "l", "u", "s", "-", "2", "0", "2", "5", "-", "0", "1", "-", "2", "5">>) @@
  ("qwen-plus-2025-04-28" :> <<"q", "w", "e", "n", "-", "p", "l", "u", "s", "-", "2", "0", "2", "5", "-", "0", "4", "-", "2", "8">>) @@
  ("qwen-plus-latest" :> <<"q", "w", "e", "n", "-", "p", "l", "u", "s", "-", "l", "a", "t", "e", "s", "t">>) @@
  ("qwen-plus-thinking" :> <<"q", "w", "e", "n", "-", "p", "l", "u", "s", "-", "t", "h", "i", "n", "k", "i", "n", "g">>) @@
  ("qwen-turbo" :> <<"q", "w", "e", "n", "-", "t", "u", "r", "b", "o">>) @@
  ("qwen-turbo-2024-11-01" :> <<"q", "w", "e", "n", "-", "t", "u", "r", "b", "o", "-", "2", "0", "2", "4", "-", "1", "1", "-", "0", "1">>) @@
  ("qwen-turbo-2025-04-28" :> <<"q", "w", "e", "n", "-", "t", "u", "r", "b", "o", "-", "2", "0", "2", "5", "-", "0", "4", "-", "2", "8">>) @@
  ("qwen-turbo-latest" :> <<"q", "w", "e", "n", "-", "t", "u", "r", "b", "o", "-", "l", "a", "t", "e", "s", "t">>) @@
  ("qwen3" :> <<"q", "w", "e", "n", "3">>) @@
  ("qwen3-235b-a22b" :> <<"q", "w", "e", "n", "3", "-", "2", "3", "5", "b", "-", "a", "2", "2", "b">>) @@
  ("qwen3-30b-a3b" :> <<"q", "w", "e", "n", "3", "-", "3", "0", "b", "-", "a", "3", "b">>) @@
  ("qwen3-32b" :> <<"q", "w", "e", "n", "3", "-", "3", "2", "b">>) @@
  ("qwen3-32b-nonthinking" :> <<"q", "w", "e", "n", "3", "-", "3", "2", "b", "-", "n", "o", "n", "t", "h", "i", "n", "k", "i", "n", "g">>) @@
  ("qwen3-32b-thinking" :> <<"q", "w", "e", "n", "3", "-", "3", "2", "b", "-", "t", "h", "i", "n", "k", "i", "n", "g">>) @@
  ("qwen3-8b" :> <<"q", "w", "e", "n", "3", "-", "8", "b">>) @@
  ("r1" :> <<"r", "1">>) @@
  ("reached your specified API usage limits" :> <<"r", "e", "a", "c", "h", "e", "d", " ", "y", "o", "u", "r", " ", "s", "p", "e", "c", "i", "f", "i", "e", "d", " ", "A", "P", "I", " ", "u", "s", "a", "g", "e", " ", "l", "i", "m", "i", "t", "s">>) @@
  ("sonnet" :> <<"s", "o", "n", "n", "e", "t">>) @@
  ("specified model ID" :> <<"s", "p", "e", "c", "i", "f", "i", "e", "d", " ", "m", "o", "d", "e", "l", " ", "I", "D">>) @@
  ("text-embedding-ada" :> <<"t", "e", "x", "t", "-", "e", "m", "b", "e", "d", "d", "i", "n", "g", "-", "a", "d", "a">>) @@
  ("text-embedding-ada-002" :> <<"t", "e", "x", "t", "-", "e", "m", "b", "e", "d", "d", "i", "n", "g", "-", "a", "d", "a", "-", "0", "0", "2">>) @@
  ("tral" :> <<"t", "r", "a", "l">>) @@
  ("tunedModels/t1" :> <<"t", "u", "n", "e", "d", "M", "o", "d", "e", "l", "s", "/", "t", "1">>) @@
  ("ultra" :> <<"u", "l", "t", "r", "a">>) @@
  ("usage blocked until" :> <<"u", "s", "a", "g", "e", " ", "b", "l", "o", "c", "k", "e", "d", " ", "u", "n", "t", "i", "l">>) @@
  ("v1" :> <<"v", "1">>) @@
  ("xai" :> <<"x", "a", "i">>) @@
  ("{\"quota_id\":\"free_tier_requests\"}" :> <<"{", "\"", "q", "u", "o", "t", "a", "_", "i", "d", "\"", ":", "\"", "f", "r", "e", "e", "_", "t", "i", "e", "r", "_", "r", "e", "q", "u", "e", "s", "t", "s", "\"", "}">>) @@
  ("{\"quota_limit_value\":\"0\"}" :> <<"{", "\"", "q", "u", "o", "t", "a", "_", "l", "i", "m", "i", "t", "_", "v", "a", "l", "u", "e", "\"", ":", "\"", "0", "\"", "}">>)
\* END Chars

S(str) == Chars[str]

Digit == {"0", "1", "2", "3", "4", "5", "6", "7", "8", "9"}

Lower == {"a", "b", "c", "d", "e", "f", "g", "h", "i", "j", "k", "l", "m",
          "n", "o", "p", "q", "r", "s", "t", "u", "v", "w", "x", "y", "z"}

Upper == {"A", "B", "C", "D", "E", "F", "G", "H", "I", "J", "K", "L", "M",
          "N", "O", "P", "Q", "R", "S", "T", "U", "V", "W", "X", "Y", "Z"}

\* \w of a JavaScript regular expression
Word == Lower \cup Upper \cup Digit \cup {"_"}

SetMin(xs) == CHOOSE x \in xs : \A y \in xs : x <= y

\* String.prototype.startsWith
StartsWith(s, p) == Len(p) <= Len(s) /\ SubSeq(s, 1, Len(p)) = p

\* the positions at which p occurs in s
Occurrences(s, p) ==
  {i \in 1..(Len(s) - Len(p) + 1) : SubSeq(s, i, i + Len(p) - 1) = p}

\* String.prototype.includes
Includes(s, p) == Occurrences(s, p) # {}

\* String.prototype.replace(p, q) with a string pattern: the first occurrence
ReplaceFirst(s, p, q) ==
  IF ~Includes(s, p) THEN s
  ELSE LET i == SetMin(Occurrences(s, p))
       IN SubSeq(s, 1, i - 1) \o q \o SubSeq(s, i + Len(p), Len(s))

(***************************************************************************)
(* Regular expressions, as syntax trees.  Ends(re, s, i) is the set of     *)
(* positions j such that re matches s[i..j-1].                             *)
(***************************************************************************)
Lit(str) == [t |-> "lit", s |-> Chars[str]]
In(cs) == [t |-> "in", cs |-> cs]
AnyChar == [t |-> "any"]
D == In(Digit)
Cat(a) == [t |-> "cat", a |-> a]
Alt(a) == [t |-> "alt", a |-> a]
Opt(r) == [t |-> "opt", r |-> r]
Rep(r, n) == [t |-> "rep", r |-> r, n |-> n]
Star(r) == [t |-> "star", r |-> r]
Plus(r) == Cat(<<r, Star(r)>>)

RECURSIVE Ends(_, _, _)
Ends(re, s, i) ==
  CASE re.t = "lit" ->
         IF i + Len(re.s) - 1 <= Len(s) /\ SubSeq(s, i, i + Len(re.s) - 1) = re.s
         THEN {i + Len(re.s)} ELSE {}
    [] re.t = "in" -> IF i <= Len(s) /\ s[i] \in re.cs THEN {i + 1} ELSE {}
    [] re.t = "any" -> IF i <= Len(s) THEN {i + 1} ELSE {}
    [] re.t = "opt" -> {i} \cup Ends(re.r, s, i)
    [] re.t = "rep" ->
         IF re.n = 0 THEN {i}
         ELSE UNION {Ends(Rep(re.r, re.n - 1), s, j) : j \in Ends(re.r, s, i)}
    [] re.t = "star" ->
         {i} \cup UNION {Ends(re, s, j) : j \in Ends(re.r, s, i) \ {i}}
    [] re.t = "alt" ->
         UNION {Ends(re.a[k], s, i) : k \in 1..Len(re.a)}
    [] re.t = "cat" ->
         IF Len(re.a) = 0 THEN {i}
         ELSE UNION {Ends(Cat(Tail(re.a)), s, j) : j \in Ends(Head(re.a), s, i)}

\* /^re$/
MatchFull(re, s) == (Len(s) + 1) \in Ends(re, s, 1)
\* /^re/
MatchPrefix(re, s) == Ends(re, s, 1) # {}
\* /re/
MatchAnywhere(re, s) == \E i \in 1..(Len(s) + 1) : Ends(re, s, i) # {}
\* /re$/
MatchSuffix(re, s) == \E i \in 1..(Len(s) + 1) : (Len(s) + 1) \in Ends(re, s, i)

\* s.replace(/re$/, ""): the leftmost match that reaches the end is removed
StripSuffix(re, s) ==
  LET starts == {i \in 1..(Len(s) + 1) : (Len(s) + 1) \in Ends(re, s, i)}
  IN IF starts = {} THEN s ELSE SubSeq(s, 1, SetMin(starts) - 1)

\* -\d{4}-\d{2}-\d{2}
DATE == Cat(<<Lit("-"), Rep(D, 4), Lit("-"), Rep(D, 2), Lit("-"), Rep(D, 2)>>)

(***************************************************************************)
(* The model-family registry (shared/models.ts).                           *)
(***************************************************************************)
LLM_SERVICES ==
  {"openai", "anthropic", "google-ai", "mistral-ai", "aws", "gcp", "azure",
   "deepseek", "xai", "cohere", "qwen", "moonshot"}

OpenAIModelFamilies ==
  {"turbo", "gpt4", "gpt4-32k", "gpt4-turbo", "gpt4o", "gpt41", "gpt41-mini",
   "gpt41-nano", "gpt45", "o1", "o1-mini", "o1-pro", "o3-pro", "o3-mini", "o3",
   "o4-mini", "codex-mini", "dall-e", "gpt-image"}

\* the Azure rows of MODEL_FAMILY_SERVICE are the OpenAI families with "azure-"
\* in front; there is no row for a Moonshot family
MODEL_FAMILY_SERVICE ==
  [f \in {"qwen", "cohere", "xai", "deepseek", "claude", "claude-opus",
          "aws-claude", "aws-claude-opus", "aws-mistral-tiny",
          "aws-mistral-small", "aws-mistral-medium", "aws-mistral-large",
          "gcp-claude", "gcp-claude-opus", "gemini-flash", "gemini-pro",
          "gemini-ultra", "mistral-tiny", "mistral-small", "mistral-medium",
          "mistral-large"}
          \cup OpenAIModelFamilies
          \cup {"azure-" \o g : g \in OpenAIModelFamilies} |->
     CASE f \in {"qwen", "cohere", "xai", "deepseek"} -> f
       [] f \in OpenAIModelFamilies -> "openai"
       [] f \in {"claude", "claude-opus"} -> "anthropic"
       [] f \in {"aws-claude", "aws-claude-opus", "aws-mistral-tiny",
                 "aws-mistral-small", "aws-mistral-medium",
                 "aws-mistral-large"} -> "aws"
       [] f \in {"gcp-claude", "gcp-claude-opus"} -> "gcp"
       [] f \in {"gemini-flash", "gemini-pro", "gemini-ultra"} -> "google-ai"
       [] f \in {"mistral-tiny", "mistral-small", "mistral-medium",
                 "mistral-large"} -> "mistral-ai"
       [] OTHER -> "azure"]

\* one row of OPENAI_MODEL_FAMILY_MAP: a regular expression that starts with ^,
\* whether it ends with $, and the family
Row(re, full, family) == [re |-> re, full |-> full, family |-> family]

OPENAI_MODEL_FAMILY_MAP ==
  << Row(Cat(<<Lit("gpt-image"), Opt(Cat(<<Lit("-"), Plus(D)>>)),
              Opt(Lit("-preview")), Opt(DATE)>>), TRUE, "gpt-image"),
     Row(Cat(<<Lit("gpt-4.5"), Opt(Lit("-preview")), Opt(DATE)>>), TRUE, "gpt45"),
     Row(Cat(<<Lit("gpt-4.1"), Opt(DATE)>>), TRUE, "gpt41"),
     Row(Cat(<<Lit("gpt-4.1-mini"), Opt(DATE)>>), TRUE, "gpt41-mini"),
     Row(Cat(<<Lit("gpt-4.1-nano"), Opt(DATE)>>), TRUE, "gpt41-nano"),
     Row(Cat(<<Lit("gpt-4o"), Opt(DATE)>>), TRUE, "gpt4o"),
     Row(Lit("chatgpt-4o"), FALSE, "gpt4o"),
     Row(Cat(<<Lit("gpt-4o-mini"), Opt(DATE)>>), TRUE, "turbo"),
     Row(Cat(<<Lit("gpt-4-turbo"), Opt(DATE)>>), TRUE, "gpt4-turbo"),
     Row(Cat(<<Lit("gpt-4-turbo"), Opt(Lit("-preview"))>>), TRUE, "gpt4-turbo"),
     Row(Cat(<<Lit("gpt-4-"), Alt(<<Lit("0125"), Lit("1106")>>),
              Opt(Lit("-preview"))>>), TRUE, "gpt4-turbo"),
     Row(Cat(<<Lit("gpt-4"), Opt(Cat(<<Lit("-"), Rep(D, 4)>>)), Lit("-vision"),
              Opt(Lit("-preview"))>>), TRUE, "gpt4-turbo"),
     Row(Cat(<<Lit("gpt-4-32k-"), Rep(D, 4)>>), TRUE, "gpt4-32k"),
     Row(Lit("gpt-4-32k"), TRUE, "gpt4-32k"),
     Row(Cat(<<Lit("gpt-4-"), Rep(D, 4)>>), TRUE, "gpt4"),
     Row(Lit("gpt-4"), TRUE, "gpt4"),
     Row(Cat(<<Lit("gpt-3"), AnyChar, Lit("5-turbo")>>), FALSE, "turbo"),
     Row(Lit("text-embedding-ada-002"), TRUE, "turbo"),
     Row(Cat(<<Lit("dall-e-"), Rep(D, 1)>>), TRUE, "dall-e"),
     Row(Cat(<<Lit("o1-mini"), Opt(DATE)>>), TRUE, "o1-mini"),
     Row(Cat(<<Lit("o1-pro"), Opt(DATE)>>), TRUE, "o1-pro"),
     Row(Cat(<<Lit("o3-pro"), Opt(DATE)>>), TRUE, "o3-pro"),
     Row(Cat(<<Lit("o1"), Opt(DATE)>>), TRUE, "o1"),
     Row(Cat(<<Lit("o3-mini"), Opt(DATE)>>), TRUE, "o3-mini"),
     Row(Cat(<<Lit("o3"), Opt(DATE)>>), TRUE, "o3"),
     Row(Cat(<<Lit("o4-mini"), Opt(DATE)>>), TRUE, "o4-mini"),
     \* the source writes \d in a plain string literal, which is the letter d
     Row(Cat(<<Lit("codex-mini"),
              Opt(Alt(<<Lit("-latest"),
                        Cat(<<Lit("-"), Rep(Lit("d"), 4), Lit("-"),
                              Rep(Lit("d"), 2), Lit("-"), Rep(Lit("d"), 2)>>)>>))>>),
         TRUE, "codex-mini") >>

RowMatches(row, s) ==
  IF row.full THEN MatchFull(row.re, s) ELSE MatchPrefix(row.re, s)

\* the family of the first row of OPENAI_MODEL_FAMILY_MAP that matches s
FirstFamily(s, prefix, defaultFamily) ==
  LET hits == {k \in 1..Len(OPENAI_MODEL_FAMILY_MAP) :
                 RowMatches(OPENAI_MODEL_FAMILY_MAP[k], s)}
  IN IF hits = {} THEN defaultFamily
     ELSE prefix \o OPENAI_MODEL_FAMILY_MAP[SetMin(hits)].family

getOpenAIModelFamily(model) == FirstFamily(model, "", "gpt4")

getClaudeModelFamily(model) ==
  IF Includes(model, S("opus")) THEN "claude-opus" ELSE "claude"

getGoogleAIModelFamily(model) ==
  IF Includes(model, S("ultra")) /\ ~Includes(model, S("imagen"))
  THEN "gemini-ultra"
  ELSE IF Includes(model, S("flash")) THEN "gemini-flash" ELSE "gemini-pro"

getMistralAIModelFamily(model) ==
  LET prunedModel ==
        StripSuffix(Cat(<<Lit("-"),
                          Alt(<<Lit("latest"),
                                Cat(<<Rep(D, 4),
                                      Opt(Cat(<<Lit("-"), Rep(D, 2)>>)),
                                      Opt(Cat(<<Lit("-"), Rep(D, 2)>>))>>)>>)>>),
                    model)
  IN CASE prunedModel = S("mistral-tiny") -> "mistral-tiny"
       [] prunedModel = S("mistral-small") -> "mistral-small"
       [] prunedModel = S("mistral-medium") -> "mistral-medium"
       [] prunedModel = S("mistral-large") -> "mistral-large"
       [] prunedModel = S("pixtral-large") -> "mistral-large"
       [] prunedModel \in {S("mistral-medium-2505"), S("magistral-medium-latest")}
            -> "mistral-medium"
       [] prunedModel \in {S("codestral"), S("ministral-8b"), S("mistral-embed"),
                           S("pixtral-12b-2409"), S("magistral-small-latest")}
            -> "mistral-small"
       [] prunedModel \in {S("ministral-3b"), S("open-mistral-7b")} -> "mistral-tiny"
       [] prunedModel \in {S("pixtral"), S("pixtral-12b"), S("open-mistral-nemo"),
                           S("open-mixtral-8x7b"), S("open-codestral-mamba"),
                           S("mathstral")} -> "mistral-small"
       [] prunedModel = S("open-mixtral-8x22b") -> "mistral-medium"
       [] OTHER -> "mistral-small"

\* model.replace(/^(\w+)\.(.+?)(-v\d+)?(:\d+)*$/, "$2")
DeAwsify(model) ==
  LET tailRe == Cat(<<Opt(Cat(<<Lit("-v"), Plus(D)>>)),
                      Star(Cat(<<Lit(":"), Plus(D)>>))>>)
      dots == Ends(Cat(<<Plus(In(Word)), Lit(".")>>), model, 1)
      \* (p, q): group 2 is model[p..q-1] and the rest matches to the end
      cuts == {pq \in dots \X (1..(Len(model) + 1)) :
                 /\ pq[2] > pq[1]
                 /\ (Len(model) + 1) \in Ends(tailRe, model, pq[2])}
  IN IF cuts = {} THEN model
     ELSE LET p == SetMin({pq[1] : pq \in cuts})
              q == SetMin({pq[2] : pq \in {c \in cuts : c[1] = p}})
          IN SubSeq(model, p, q - 1)

getAwsBedrockModelFamily(model) ==
  IF Includes(model, S("claude")) \/ Includes(model, S("anthropic"))
  THEN "aws-" \o getClaudeModelFamily(DeAwsify(model))
  ELSE IF Includes(model, S("tral"))
       THEN "aws-" \o getMistralAIModelFamily(DeAwsify(model))
       ELSE "aws-claude"

getGcpModelFamily(model) ==
  IF Includes(model, S("opus")) THEN "gcp-claude-opus" ELSE "gcp-claude"

getAzureOpenAIModelFamily(model) ==
  FirstFamily(ReplaceFirst(ReplaceFirst(model, S("gpt-35-turbo"), S("gpt-3.5-turbo")),
                           S("azure-"), S("")),
              "azure-", "azure-gpt4")

\* getModelFamilyForRequest once req.modelFamily is unset; the model is
\* req.body.model, a sequence of characters
ResolveModelFamily(service, outboundApi, model) ==
  CASE service = "aws" -> getAwsBedrockModelFamily(model)
    [] service = "gcp" -> getGcpModelFamily(model)
    [] service = "azure" -> getAzureOpenAIModelFamily(model)
    [] service = "qwen" -> "qwen"
    [] OTHER ->
         CASE outboundApi \in {"anthropic-chat", "anthropic-text"} ->
                getClaudeModelFamily(model)
           [] outboundApi \in {"openai", "openai-text", "openai-image"} ->
                IF service = "deepseek" THEN "deepseek"
                ELSE getOpenAIModelFamily(model)
           [] outboundApi = "google-ai" -> getGoogleAIModelFamily(model)
           [] outboundApi \in {"mistral-ai", "mistral-text"} ->
                getMistralAIModelFamily(model)
           [] outboundApi = "openai-responses" -> getOpenAIModelFamily(model)

(***************************************************************************)
(* Bounds of the model and constants of the program.                       *)
(***************************************************************************)
\* the clock stops advancing here (milliseconds)
MaxTime == 2000

\* a run of a service whose rate-limit handler waits before it re-enqueues
\* (Cohere, Moonshot) is followed this long when it has one request
RetryTime == 4000

\* how far one step of the clock may advance it (milliseconds)
TickSteps == {2000}

RATE_LIMIT_LOCKOUT == 2000

KEY_REUSE_DELAY == 500

GOOGLE_AI_MAX_CONTEXT == 84000

MISTRAL_AI_MAX_CONTENT == 131072

\* Number.MAX_SAFE_INTEGER, cut to the integers the checker has; no limit and
\* no token count of the model comes near it
MAX_SAFE_INTEGER == 2147483647

\* the retry bound of the admission queue
MAX_RETRIES == 3

\* the bound the Cohere and Moonshot rate-limit handlers write out themselves
HANDLER_RETRIES == 3

\* the requests, in the order in which the clients send them
Arrivals == <<"r1", "r2">>

\* a run is followed for this many dispatches when it has one request, and
\* for this many when it has two
MaxDispatches == 5

PairDispatches == 3

(***************************************************************************)
(* State.                                                                  *)
(***************************************************************************)
VARIABLES
  scn,       \* the run: the service, its configured keys, the requests, the
             \* status codes the upstream answers with, the dispatches followed
  now,       \* Date.now()
  keys,      \* the provider's key records, by hash
  heap,      \* the overQuotaFamilies arrays, by reference
  reqs,      \* the request records
  queue,     \* the admission queue, in arrival order
  markedAt,  \* per key, when markRateLimited was last called on it (-1: never)
  order,     \* the requests in the order of their first dispatch
  ev,        \* what the last step did
  stream,    \* a streamed response: the SSE transformer and the client's side
  geo,       \* a call of the geoblock middleware: its inputs and what it did
  info,      \* the info page: cachedInfo, cacheTime and the last buildInfo call
  models,    \* a router's models list: modelsCache, modelsCacheTime, the calls
  body       \* a request body that a router's preprocessor rewrites

vars == <<scn, now, keys, heap, reqs, queue, markedAt, order, ev, stream, geo, info, models, body>>

\* the service whose provider, keys and requests are followed
service == scn.service

Hashes == scn.hashes

ReqIds == scn.requests

(***************************************************************************)
(* The key provider (key-management/moonshot/provider.ts) and the key pool *)
(* in front of it (key-management/key-pool.ts).  ks is the provider's      *)
(* this.keys.                                                              *)
(***************************************************************************)
\* the families a provider gives a new key
InitialFamilies(svc) ==
  IF svc = "moonshot" THEN {"moonshot"}
  ELSE {f \in DOMAIN MODEL_FAMILY_SERVICE : MODEL_FAMILY_SERVICE[f] = svc}

\* the record the constructor pushes for a configured key; the last fields are
\* the ones a later update first assigns (0 is an unset overQuotaFamilies)
NewKey(svc, hash) ==
  [ hash |-> hash,
    service |-> svc,
    modelFamilies |-> InitialFamilies(svc),
    isDisabled |-> FALSE,
    isRevoked |-> FALSE,
    promptCount |-> 0,
    lastUsed |-> 0,
    lastChecked |-> 0,
    rateLimitedAt |-> 0,
    rateLimitedUntil |-> 0,
    tokenUsage |-> <<>>,
    isOverQuota |-> FALSE,
    overQuotaFamilies |-> 0,
    requiresPreamble |-> FALSE,
    allowsMultimodality |-> TRUE ]

Max(a, b) == IF a >= b THEN a ELSE b

\* Object.assign(key, update)
Assign(key, patch) ==
  [f \in DOMAIN key \cup DOMAIN patch |->
     IF f \in DOMAIN patch THEN patch[f] ELSE key[f]]

\* get that draws from every key, the disabled ones too
AvailableKeys_all(ks) == DOMAIN ks

\* the keys get may return: this.keys.filter((k) => !k.isDisabled)
AvailableKeys(ks) == {h \in DOMAIN ks : ~ks[h].isDisabled}

\* MoonshotKeyProvider.available
Provider_available(ks) == Cardinality(AvailableKeys(ks))

\* a throttle that forgets the lockout the key already has
Throttle_overwrite(ks, hash, t) ==
  [ks EXCEPT ![hash] =
     [@ EXCEPT !.rateLimitedAt = t,
               !.rateLimitedUntil = t + KEY_REUSE_DELAY]]

\* MoonshotKeyProvider.throttle
Throttle(ks, hash, t) ==
  [ks EXCEPT ![hash] =
     [@ EXCEPT !.rateLimitedAt = t,
               !.rateLimitedUntil = Max(@, t + KEY_REUSE_DELAY)]]

\* MoonshotKeyProvider.get once the key is drawn: the record after the call
Provider_get(ks, hash, t) ==
  Throttle([ks EXCEPT ![hash].lastUsed = t], hash, t)

\* MoonshotKeyProvider.disable
Provider_disable(ks, hash) ==
  IF hash \in DOMAIN ks THEN [ks EXCEPT ![hash].isDisabled = TRUE] ELSE ks

\* an update that also counts its calls on the record
Provider_update_counting(ks, hash, patch) ==
  IF hash \in DOMAIN ks
  THEN [ks EXCEPT ![hash] = [Assign(@, patch) EXCEPT !.lastChecked = @ + 1]]
  ELSE ks

\* MoonshotKeyProvider.update
Provider_update(ks, hash, patch) ==
  IF hash \in DOMAIN ks THEN [ks EXCEPT ![hash] = Assign(@, patch)] ELSE ks

\* a markRateLimited that writes the two times the wrong way round
Provider_markRateLimited_swapped(ks, hash, t) ==
  [ks EXCEPT ![hash] =
     [@ EXCEPT !.rateLimitedAt = t + RATE_LIMIT_LOCKOUT,
               !.rateLimitedUntil = t]]

\* MoonshotKeyProvider.markRateLimited
Provider_markRateLimited(ks, hash, t) ==
  [ks EXCEPT ![hash] =
     [@ EXCEPT !.rateLimitedAt = t,
               !.rateLimitedUntil = t + RATE_LIMIT_LOCKOUT]]

\* MoonshotKeyProvider.incrementUsage
Provider_incrementUsage(ks, hash, family, usage) ==
  IF hash \notin DOMAIN ks THEN ks
  ELSE LET old == IF family \in DOMAIN ks[hash].tokenUsage
                  THEN ks[hash].tokenUsage[family]
                  ELSE [input |-> 0, output |-> 0]
           new == [input |-> old.input + usage.input,
                   output |-> old.output + usage.output]
       IN [ks EXCEPT ![hash] =
             [@ EXCEPT !.promptCount = @ + 1,
                       !.tokenUsage =
                          [f \in DOMAIN @ \cup {family} |->
                             IF f = family THEN new ELSE @[f]]]]

\* the patch recheck applies to every key
RecheckPatch == [isOverQuota |-> FALSE, isDisabled |-> FALSE, lastChecked |-> 0]

\* MoonshotKeyProvider.recheck, with a checker and config.checkKeys set
Provider_recheck(ks) == [h \in DOMAIN ks |-> Assign(ks[h], RecheckPatch)]

\* the providers for which KeyPool.disable also writes isOverQuota
TracksQuota(svc) ==
  svc \in {"openai", "anthropic", "deepseek", "xai", "cohere", "qwen", "moonshot"}

\* a disable that stops after the provider's own write
KeyPool_disable_flagOnly(ks, key, reason) == Provider_disable(ks, key.hash)

\* KeyPool.disable(key, reason)
KeyPool_disable(ks, key, reason) ==
  LET s1 == Provider_disable(ks, key.hash)
      s2 == Provider_update(s1, key.hash, [isRevoked |-> (reason = "revoked")])
  IN IF TracksQuota(key.service)
     THEN Provider_update(s2, key.hash, [isOverQuota |-> (reason = "quota")])
     ELSE s2

\* KeyPool.update(key, props)
KeyPool_update(ks, key, props) == Provider_update(ks, key.hash, props)

\* KeyPool.markRateLimited(key)
KeyPool_markRateLimited(ks, key, t) == Provider_markRateLimited(ks, key.hash, t)

\* KeyPool.incrementUsage(key, modelFamily, usage)
KeyPool_incrementUsage(ks, key, family, usage) ==
  Provider_incrementUsage(ks, key.hash, family, usage)

(***************************************************************************)
(* Upstream error responses.  A response is a status code and a body; the  *)
(* body is what each service sends: OpenAI-shaped {error: {code, type,     *)
(* message}}, Anthropic {error: {type, message}}, AWS {message} with the   *)
(* x-amzn-errortype header, Google {error: {code, status, message,         *)
(* details}}.  "none" is an absent field.                                  *)
(***************************************************************************)
MessageStrings ==
  { "Invalid request.",
    "Multimodal requests are not enabled for this API key.",
    "You don't have access to the model with the specified model ID.",
    "prompt must start with \"\n\nHuman:\" turn",
    "Usage blocked until 2024-03-01T00:00:00+00:00 due to user specified spend limits.",
    "This organization has been disabled.",
    "Rate limit reached for gpt-4 on requests per day (RPD): Limit 200, Used 200.",
    "Rate limit reached for gpt-4 on tokens per min (TPM): Limit 10000.",
    "API Key not found. Please pass a valid API key.",
    "Resource has been exhausted (e.g. check quota).",
    "Quota exceeded for quota metric 'Generate Content API requests per minute'." }

DetailStrings ==
  { "", "{\"quota_limit_value\":\"0\"}", "{\"quota_id\":\"free_tier_requests\"}" }

\* String.prototype.toLowerCase, on the letters the messages use
LowerOf(c) ==
  CASE c = "A" -> "a" [] c = "B" -> "b" [] c = "C" -> "c" [] c = "D" -> "d"
    [] c = "E" -> "e" [] c = "F" -> "f" [] c = "G" -> "g" [] c = "H" -> "h"
    [] c = "I" -> "i" [] c = "J" -> "j" [] c = "K" -> "k" [] c = "L" -> "l"
    [] c = "M" -> "m" [] c = "N" -> "n" [] c = "O" -> "o" [] c = "P" -> "p"
    [] c = "Q" -> "q" [] c = "R" -> "r" [] c = "S" -> "s" [] c = "T" -> "t"
    [] c = "U" -> "u" [] c = "V" -> "v" [] c = "W" -> "w" [] c = "X" -> "x"
    [] c = "Y" -> "y" [] c = "Z" -> "z" [] OTHER -> c

ToLowerCase(s) == [i \in 1..Len(s) |-> LowerOf(s[i])]

\* text.match(/pattern/i) for a pattern without special characters
MatchesI(s, pattern) == Includes(ToLowerCase(s), ToLowerCase(pattern))

\* what the handlers ask of a message; a table, so that each text is searched once
MessageFacts ==
  [m \in MessageStrings |->
     LET s == S(m) IN
     [ multimodal |-> Includes(ToLowerCase(s), S("multimodal")),
       modelAccess |-> Includes(s, S("specified model ID")),
       missingPreamble |-> StartsWith(s, S("prompt must start with \"\n\nHuman:\" turn")),
       overQuota |-> \/ MatchesI(s, S("usage blocked until"))
                     \/ MatchesI(s, S("credit balance is too low"))
                     \/ MatchesI(s, S("You will regain access on"))
                     \/ MatchesI(s, S("reached your specified API usage limits")),
       disabled |-> \/ MatchesI(s, S("organization has been disabled"))
                    \/ StartsWith(ToLowerCase(s), S("operation not allowed"))
                    \/ MatchesI(s, S("credential is only authorized for use with Claude Code")),
       perDay |-> Includes(s, S("on requests per day")) ]]

\* what the Google AI handlers ask of JSON.stringify(error): the message and
\* the details are both part of that text
TextFacts ==
  [m \in MessageStrings |-> [d \in DetailStrings |->
     LET text == S(m) \o S(d) IN
     [ keyDead400 |-> \/ MatchesI(text, S("please enable billing"))
                      \/ MatchesI(text, S("API key not valid"))
                      \/ MatchesI(text, S("API key expired"))
                      \/ MatchesI(text, S("pass a valid API")),
       keyDead429 |-> \/ MatchesI(text, S("GenerateContentRequestsPerMinutePerProjectPerRegion"))
                      \/ MatchesI(text, S("\"quota_limit_value\":\"0\"")),
       quotaExhausted |-> \/ MatchesI(text, S("quota exceeded"))
                          \/ MatchesI(text, S("free tier"))
                          \/ MatchesI(text, S("free_tier"))
                          \/ MatchesI(text, S("quota limit")) ]]]

Body(json, code, type, status, message, details, amzn) ==
  [ json |-> json, code |-> code, type |-> type, status |-> status,
    message |-> message, details |-> details, amzn |-> amzn ]

OpenAIShaped ==
  { Body(TRUE, c, ty, "none", m, "", "none") :
      c \in {"none", "content_policy_violation", "billing_hard_limit_reached", "429"},
      ty \in {"none", "insufficient_quota", "invalid_request_error",
              "access_terminated", "billing_not_active", "requests", "tokens"},
      m \in { "Invalid request.",
              "Rate limit reached for gpt-4 on requests per day (RPD): Limit 200, Used 200.",
              "Rate limit reached for gpt-4 on tokens per min (TPM): Limit 10000." } }

AnthropicShaped ==
  { Body(TRUE, "none", ty, "none", m, "", "none") :
      ty \in {"invalid_request_error", "rate_limit_error", "permission_error"},
      m \in { "none", "Invalid request.",
              "Multimodal requests are not enabled for this API key.",
              "prompt must start with \"\n\nHuman:\" turn",
              "Usage blocked until 2024-03-01T00:00:00+00:00 due to user specified spend limits.",
              "This organization has been disabled." } }

AwsShaped ==
  { Body(TRUE, "none", "none", "none", m, "", a) :
      a \in {"none", "ThrottlingException", "ModelNotReadyException",
             "UnrecognizedClientException", "AccessDeniedException"},
      m \in { "none", "Invalid request.",
              "You don't have access to the model with the specified model ID.",
              "prompt must start with \"\n\nHuman:\" turn" } }

GoogleShaped ==
  { Body(TRUE, "numeric", "none", st, m, d, "none") :
      st \in {"INVALID_ARGUMENT", "RESOURCE_EXHAUSTED"},
      m \in { "API Key not found. Please pass a valid API key.",
              "Resource has been exhausted (e.g. check quota).",
              "Quota exceeded for quota metric 'Generate Content API requests per minute'.",
              "prompt must start with \"\n\nHuman:\" turn" },
      d \in DetailStrings }

\* a body that is not JSON (a string)
NotJson == Body(FALSE, "none", "none", "none", "none", "", "none")

BodiesOf(svc) ==
  {NotJson} \cup
    CASE svc = "anthropic" -> AnthropicShaped
      [] svc = "aws" -> AwsShaped
      [] svc \in {"google-ai", "gcp"} -> GoogleShaped
      [] OTHER -> OpenAIShaped

StatusCodes == {200, 400, 401, 402, 403, 404, 405, 429, 500, 503}

\* the bodies a response of a status code may carry: the handlers read the
\* body's fields for 400, 403 and 429 only
DefaultBody(svc) ==
  CASE svc = "anthropic" ->
         Body(TRUE, "none", "invalid_request_error", "none", "Invalid request.", "", "none")
    [] svc = "aws" ->
         Body(TRUE, "none", "none", "none", "Invalid request.", "", "none")
    [] svc \in {"google-ai", "gcp"} ->
         Body(TRUE, "numeric", "none", "INVALID_ARGUMENT",
              "API Key not found. Please pass a valid API key.", "", "none")
    [] OTHER ->
         Body(TRUE, "none", "none", "none", "Invalid request.", "", "none")

BodiesFor(svc, statusCode) ==
  CASE statusCode \in {400, 403, 429} -> BodiesOf(svc)
    [] statusCode < 400 -> {DefaultBody(svc)}
    [] OTHER -> {NotJson, DefaultBody(svc)}

\* getAwsErrorType(proxyRes.headers["x-amzn-errortype"])
getAwsErrorType(header) == IF header = "none" THEN "undefined" ELSE header

\* errorPayload.error?.code || errorPayload.error?.type || getAwsErrorType(..)
ErrorType(b) ==
  IF b.code # "none" THEN b.code
  ELSE IF b.type # "none" THEN b.type ELSE getAwsErrorType(b.amzn)

\* errorPayload.error once handleUpstreamErrors has converted the AWS and GCP
\* bodies to {message, type}
ErrorOf(svc, b) ==
  CASE svc = "aws" ->
         [b EXCEPT !.code = "none", !.type = ErrorType(b), !.status = "none"]
    [] svc = "gcp" /\ b.code # "none" ->
         [b EXCEPT !.code = "none",
                   !.type = IF b.status # "none" THEN b.status ELSE b.code,
                   !.status = "none"]
    [] OTHER -> b

Fact(b, name) == b.message # "none" /\ MessageFacts[b.message][name]

(***************************************************************************)
(* The admission queue (proxy/queue, spec 4.2 and 4.5).                    *)
(***************************************************************************)
\* a re-enqueue that never refuses
reenqueueRequest_uncapped(retryCount) ==
  [ok |-> TRUE, retryCount |-> retryCount + 1]

\* reenqueueRequest(req), given req.retryCount: whether the request goes back
\* to its partition, and its retry count afterwards
reenqueueRequest(retryCount) ==
  IF retryCount < MAX_RETRIES
  THEN [ok |-> TRUE, retryCount |-> retryCount + 1]
  ELSE [ok |-> FALSE, retryCount |-> retryCount]

\* an enqueue that puts the request at the head
enqueue_front(q, r) == <<r>> \o q

\* enqueue: the request joins the tail
enqueue(q, r) == Append(q, r)

\* the requests of a partition that wait, in queue order
Waiting(q, rs, family) ==
  SelectSeq(q, LAMBDA r : rs[r].modelFamily = family)

\* the request the dispatcher pops for a partition
PartitionHead(q, rs, family) == Head(Waiting(q, rs, family))

Remove(q, r) == SelectSeq(q, LAMBDA x : x # r)

(***************************************************************************)
(* The upstream-error handlers (proxy/middleware/response/index.ts).       *)
(* A handler's result: the keys and the heap after it, req.retryCount,     *)
(* whether refundLastAttempt was called, and how it ended:                 *)
(*   "send"   it fell through to sendProxyError and threw HttpError        *)
(*   "retry"  it re-enqueued the request and threw RetryableError          *)
(*   "return" it returned normally to the middleware stack                 *)
(*   "threw"  it threw another error                                       *)
(*   "delay"  it is waiting on its timer before it re-enqueues             *)
(***************************************************************************)
Res(ks, hp, rc, out, refund) ==
  [ks |-> ks, hp |-> hp, rc |-> rc, out |-> out, refund |-> refund]

\* await reenqueueRequest(req); throw new RetryableError(..): a request whose
\* retries are used up is not queued again and its error is returned
Reenqueue(ks, hp, rc) ==
  LET q == reenqueueRequest(rc)
  IN Res(ks, hp, q.retryCount, IF q.ok THEN "retry" ELSE "send", FALSE)

handleAnthropicAwsBadRequestError(ks, hp, req, e, t) ==
  IF e.message = "none" THEN Res(ks, hp, req.retryCount, "threw", FALSE)
  ELSE IF Fact(e, "missingPreamble")
  THEN Reenqueue(KeyPool_update(ks, req.key, [requiresPreamble |-> TRUE]),
                 hp, req.retryCount)
  ELSE IF Fact(e, "overQuota")
  THEN Res(KeyPool_disable(ks, req.key, "quota"), hp, req.retryCount, "send", FALSE)
  ELSE IF Fact(e, "disabled")
  THEN Res(KeyPool_disable(ks, req.key, "revoked"), hp, req.retryCount, "send", FALSE)
  ELSE Res(ks, hp, req.retryCount, "send", FALSE)

\* the handler without its call of markRateLimited
handleAnthropicRateLimitError_unmarked(ks, hp, req, e, t) ==
  IF e.type = "rate_limit_error"
  THEN Reenqueue(ks, hp, req.retryCount)
  ELSE Res(ks, hp, req.retryCount, "send", FALSE)

handleAnthropicRateLimitError(ks, hp, req, e, t) ==
  IF e.type = "rate_limit_error"
  THEN Reenqueue(KeyPool_markRateLimited(ks, req.key, t), hp, req.retryCount)
  ELSE Res(ks, hp, req.retryCount, "send", FALSE)

handleAwsRateLimitError(ks, hp, req, e, t) ==
  IF e.type = "ThrottlingException"
  THEN Reenqueue(KeyPool_markRateLimited(ks, req.key, t), hp, req.retryCount)
  ELSE Res(ks, hp, req.retryCount, "send", FALSE)

handleGcpRateLimitError(ks, hp, req, e, t) ==
  IF e.type = "RESOURCE_EXHAUSTED"
  THEN Reenqueue(KeyPool_markRateLimited(ks, req.key, t), hp, req.retryCount)
  ELSE Res(ks, hp, req.retryCount, "send", FALSE)

\* handleDeepseekRateLimitError and handleXaiRateLimitError
handleDeepseekRateLimitError(ks, hp, req, e, t) ==
  Reenqueue(KeyPool_markRateLimited(ks, req.key, t), hp, req.retryCount)

\* handleCohereRateLimitError and handleMoonshotRateLimitError, up to the timer
handleCohereRateLimitError(ks, hp, req, e, t) ==
  LET ks1 == KeyPool_markRateLimited(ks, req.key, t)
      rc == req.retryCount + 1
  IN IF rc <= HANDLER_RETRIES
     THEN Res(ks1, hp, rc, "delay", FALSE)
     ELSE Res(ks1, hp, rc, "send", FALSE)

\* the handler without its test for a per-day limit
handleOpenAIRateLimitError_perDayRetried(ks, hp, req, e, t) ==
  CASE e.type \in {"insufficient_quota", "invalid_request_error"} ->
         Res(KeyPool_disable(ks, req.key, "quota"), hp, req.retryCount, "send", FALSE)
    [] e.type = "access_terminated" ->
         Res(KeyPool_disable(ks, req.key, "revoked"), hp, req.retryCount, "send", FALSE)
    [] e.type = "billing_not_active" ->
         Res(KeyPool_disable(ks, req.key, "quota"), hp, req.retryCount, "send", FALSE)
    [] e.type \in {"requests", "tokens"} ->
         Reenqueue(KeyPool_markRateLimited(ks, req.key, t), hp, req.retryCount)
    [] OTHER -> Res(ks, hp, req.retryCount, "send", FALSE)

handleOpenAIRateLimitError(ks, hp, req, e, t) ==
  CASE e.type \in {"insufficient_quota", "invalid_request_error"} ->
         Res(KeyPool_disable(ks, req.key, "quota"), hp, req.retryCount, "send", FALSE)
    [] e.type = "access_terminated" ->
         Res(KeyPool_disable(ks, req.key, "revoked"), hp, req.retryCount, "send", FALSE)
    [] e.type = "billing_not_active" ->
         Res(KeyPool_disable(ks, req.key, "quota"), hp, req.retryCount, "send", FALSE)
    [] e.type \in {"requests", "tokens"} ->
         LET ks1 == KeyPool_markRateLimited(ks, req.key, t)
         IN IF Fact(e, "perDay")
            THEN Res(ks1, hp, req.retryCount, "send", FALSE)
            ELSE Reenqueue(ks1, hp, req.retryCount)
    [] OTHER -> Res(ks, hp, req.retryCount, "send", FALSE)

handleAzureRateLimitError(ks, hp, req, e, t) ==
  IF e.code = "429"
  THEN Reenqueue(KeyPool_markRateLimited(ks, req.key, t), hp, req.retryCount)
  ELSE Res(ks, hp, req.retryCount, "send", FALSE)

handleGoogleAIBadRequestError(ks, hp, req, e, t) ==
  IF e.message # "none" /\ TextFacts[e.message][e.details].keyDead400
  THEN Res(KeyPool_disable(ks, req.key, "revoked"), hp, req.retryCount, "send", FALSE)
  ELSE Res(ks, hp, req.retryCount, "send", FALSE)

\* the family the quota branch of handleGoogleAIRateLimitError removes
FamilyToRemove(modelName) ==
  IF Includes(modelName, S("pro")) THEN "gemini-pro"
  ELSE IF Includes(modelName, S("flash")) THEN "gemini-flash"
  ELSE IF Includes(modelName, S("ultra")) THEN "gemini-ultra"
  ELSE "none"

\* the quota branch: the key's families are those of req.key without the
\* family, and overQuotaFamilies is req.key's array (a new one if it has none)
\* with the family pushed
MarkFamilyOverQuota(ks, hp, req, family) ==
  LET updatedFamilies == req.key.modelFamilies \ {family}
      ref == IF req.key.overQuotaFamilies = 0
             THEN Len(hp) + 1 ELSE req.key.overQuotaFamilies
      hp1 == IF req.key.overQuotaFamilies = 0
             THEN Append(hp, {family})
             ELSE [hp EXCEPT ![ref] = @ \cup {family}]
  IN [ks |-> KeyPool_update(ks, req.key,
                            [modelFamilies |-> updatedFamilies,
                             isOverQuota |-> TRUE,
                             overQuotaFamilies |-> ref]),
      hp |-> hp1]

handleGoogleAIRateLimitError(ks, hp, req, e, t) ==
  LET facts == TextFacts[e.message][e.details] IN
  IF e.status # "RESOURCE_EXHAUSTED"
  THEN Res(ks, hp, req.retryCount, "send", FALSE)
  ELSE IF facts.keyDead429
  THEN Res(KeyPool_disable(ks, req.key, "revoked"), hp, req.retryCount, "send", FALSE)
  ELSE IF facts.quotaExhausted
  THEN LET family == FamilyToRemove(S(req.model))
       IN IF family = "none"
          THEN Reenqueue(KeyPool_markRateLimited(ks, req.key, t), hp, req.retryCount)
          ELSE LET m == MarkFamilyOverQuota(ks, hp, req, family)
               IN Reenqueue(m.ks, m.hp, req.retryCount)
  ELSE Reenqueue(KeyPool_markRateLimited(ks, req.key, t), hp, req.retryCount)

handleUpstreamErrors(ks, hp, req, statusCode, b, t) ==
  LET svc == req.key.service
      rc == req.retryCount
      e == ErrorOf(svc, b)
      errorType == ErrorType(b)
      send == Res(ks, hp, rc, "send", FALSE)
      revoke == Res(KeyPool_disable(ks, req.key, "revoked"), hp, rc, "send", FALSE)
      revokeAndReturn ==
        Res(KeyPool_disable(ks, req.key, "revoked"), hp, rc, "return", FALSE)
  IN
  IF statusCode < 400 THEN Res(ks, hp, rc, "return", FALSE)
  ELSE IF ~b.json THEN send
  ELSE
  CASE statusCode = 400 ->
         ( CASE svc \in {"openai", "mistral-ai", "azure"} ->
                  IF e.code \in {"content_policy_violation", "content_filter"}
                  THEN Res(ks, hp, rc, "send", TRUE)
                  ELSE IF e.code = "billing_hard_limit_reached"
                  THEN handleOpenAIRateLimitError(ks, hp, req, e, t)
                  ELSE send
             [] svc \in {"anthropic", "aws", "gcp"} ->
                  handleAnthropicAwsBadRequestError(ks, hp, req, e, t)
             [] svc = "google-ai" ->
                  handleGoogleAIBadRequestError(ks, hp, req, e, t)
             [] OTHER -> send )
    [] statusCode = 401 -> revoke
    [] statusCode = 402 ->
         IF svc = "deepseek"
         THEN Res(KeyPool_disable(ks, req.key, "quota"), hp, rc, "send", FALSE)
         ELSE send
    [] statusCode = 405 ->
         IF svc = "xai"
         THEN Res(KeyPool_disable(ks, req.key, "quota"), hp, rc, "send", FALSE)
         ELSE send
    [] statusCode = 403 ->
         ( CASE svc = "anthropic" ->
                  IF errorType = "permission_error" /\ Fact(e, "multimodal")
                  THEN Reenqueue(KeyPool_update(ks, req.key,
                                                [allowsMultimodality |-> FALSE]),
                                 hp, rc)
                  ELSE revokeAndReturn
             [] svc = "aws" ->
                  IF errorType = "UnrecognizedClientException"
                  THEN revokeAndReturn
                  ELSE IF errorType = "AccessDeniedException"
                          /\ ~Fact(e, "modelAccess")
                  THEN revokeAndReturn
                  ELSE Res(ks, hp, rc, "return", FALSE)
             [] svc \in {"mistral-ai", "gcp", "moonshot"} -> revokeAndReturn
             [] OTHER -> send )
    [] statusCode = 429 ->
         ( CASE svc \in {"openai", "qwen"} ->
                  handleOpenAIRateLimitError(ks, hp, req, e, t)
             [] svc = "anthropic" -> handleAnthropicRateLimitError(ks, hp, req, e, t)
             [] svc = "aws" -> handleAwsRateLimitError(ks, hp, req, e, t)
             [] svc = "gcp" -> handleGcpRateLimitError(ks, hp, req, e, t)
             [] svc \in {"azure", "mistral-ai"} ->
                  handleAzureRateLimitError(ks, hp, req, e, t)
             [] svc = "google-ai" -> handleGoogleAIRateLimitError(ks, hp, req, e, t)
             [] svc \in {"deepseek", "xai"} ->
                  handleDeepseekRateLimitError(ks, hp, req, e, t)
             [] svc \in {"cohere", "moonshot"} ->
                  handleCohereRateLimitError(ks, hp, req, e, t) )
    [] statusCode = 404 ->
         \* the switch has no case for Moonshot: assertNever throws
         IF svc = "moonshot" THEN Res(ks, hp, rc, "threw", FALSE) ELSE send
    [] statusCode = 503 ->
         IF svc = "aws" THEN Reenqueue(ks, hp, rc) ELSE send
    [] OTHER -> send

\* the shortest time the Cohere and Moonshot handlers wait before they re-enqueue
MinDelay(svc) == IF svc = "cohere" THEN 1000 ELSE 2000

(***************************************************************************)
(* Requests.                                                               *)
(***************************************************************************)
ModelStrings ==
  { "gpt-4o", "claude-3-5-sonnet-20241022", "gemini-1.5-pro",
    "gemini-1.5-flash", "mistral-large-latest",
    "anthropic.claude-3-sonnet-20240229-v1:0", "claude-3-5-sonnet-v2@20241022",
    "deepseek-chat", "grok-3", "command-r", "qwen-max", "moonshot-v1-8k" }

\* the models whose context size is validated
CtxModelStrings ==
  { "gpt-4", "gpt-3.5-turbo-16k", "gpt-4o", "o1-mini", "gpt-4.1-mini",
    "dall-e-3", "claude-2.0", "claude-v1", "claude-3-5-sonnet-20241022",
    "claude-opus-4-20250514", "gemini-1.5-pro", "mistral-large-latest",
    "magistral-medium-latest", "anthropic.claude-3-sonnet-20240229-v1:0",
    "anthropic.claude-v2:1", "claude-3-5-sonnet-v2@20241022", "deepseek-chat",
    "grok-3", "grok-4", "command-r", "command-a-03-2025", "qwen-max",
    "moonshot-v1-8k", "kimi-k2-0711-preview" }

\* the requests a client sends to a service: req.body.model and req.outboundApi
RequestsOf(svc) ==
  CASE svc = "openai" -> {<<"gpt-4o", "openai">>}
    [] svc = "anthropic" -> {<<"claude-3-5-sonnet-20241022", "anthropic-chat">>}
    [] svc = "google-ai" -> {<<"gemini-1.5-pro", "google-ai">>,
                             <<"gemini-1.5-flash", "google-ai">>}
    [] svc = "mistral-ai" -> {<<"mistral-large-latest", "mistral-ai">>}
    [] svc = "aws" ->
         {<<"anthropic.claude-3-sonnet-20240229-v1:0", "anthropic-chat">>}
    [] svc = "gcp" -> {<<"claude-3-5-sonnet-v2@20241022", "anthropic-chat">>}
    [] svc = "azure" -> {<<"gpt-4o", "openai">>}
    [] svc = "deepseek" -> {<<"deepseek-chat", "openai">>}
    [] svc = "xai" -> {<<"grok-3", "openai">>}
    [] svc = "cohere" -> {<<"command-r", "openai">>}
    [] svc = "qwen" -> {<<"qwen-max", "openai">>}
    [] svc = "moonshot" -> {<<"moonshot-v1-8k", "openai">>}

\* req.key before a key is assigned
NoKey == NewKey("none", "none")

\* a request the client has not sent yet
NoRequest ==
  [ st |-> "new", model |-> "none", outboundApi |-> "none", userType |-> "none",
    promptTokens |-> 0, outputTokens |-> 0,
    modelFamily |-> "none", key |-> NoKey, retryCount |-> 0,
    attempts |-> 0, reenq |-> 0, enq |-> 0, responses |-> <<>>,
    since |-> 0, refunds |-> 0, counted |-> 0, mutations |-> 0 ]

\* the mutator chain signs the request for an attempt: the attempt's mutations
\* (key header, path, serialized body) join the request's changeManager
Sign(req) == [req EXCEPT !.mutations = @ + 1]

\* a revert that undoes nothing
changeManager_revert_kept(req) == req

\* req.changeManager.revert(), as createOnProxyResHandler calls it when the
\* upstream's response arrives
changeManager_revert(req) == [req EXCEPT !.mutations = 0]

\* getModelFamilyForRequest
getModelFamilyForRequest(svc, req) ==
  IF req.modelFamily # "none" THEN req.modelFamily
  ELSE ResolveModelFamily(svc, req.outboundApi, S(req.model))

\* the usage incrementUsage reports: req.promptTokens and req.outputTokens
TokensOf(req) == [input |-> req.promptTokens, output |-> req.outputTokens]

(***************************************************************************)
(* validateContextSize (request/preprocessors/validate-context-size.ts).   *)
(***************************************************************************)
\* one branch of the modelMax chain: the regular expression, how it is
\* anchored ("full" ^..$, "prefix" ^.., "suffix" ..$, "any"), and the limit
MaxRow(re, how, max) == [re |-> re, how |-> how, max |-> max]

DashDigits(n) == Cat(<<Lit("-"), Rep(D, n)>>)

DatedFull(name, max) == MaxRow(Cat(<<Lit(name), Opt(DATE)>>), "full", max)

\* claude-(?:instant-)?v1(?:\.\d)?
ClaudeV1 ==
  Cat(<<Lit("claude-"), Opt(Lit("instant-")), Lit("v1"), Opt(Cat(<<Lit("."), D>>))>>)

MODEL_MAX_CHAIN ==
  << MaxRow(Cat(<<Lit("gpt-3"), AnyChar, Lit("5-turbo-16k")>>), "any", 16384),
     MaxRow(Lit("gpt-4o"), "prefix", 128000),
     MaxRow(Cat(<<Lit("gpt-4"), AnyChar, Lit("5")>>), "prefix", 128000),
     DatedFull("gpt-4.1", 1000000),
     DatedFull("gpt-4.1-mini", 1000000),
     DatedFull("gpt-4.1-nano", 1000000),
     MaxRow(Lit("chatgpt-4o"), "prefix", 128000),
     MaxRow(Cat(<<Lit("gpt-4-turbo"), Opt(DATE)>>), "suffix", 131072),
     MaxRow(Cat(<<Lit("gpt-4-turbo"), Opt(Lit("-preview"))>>), "suffix", 131072),
     MaxRow(Cat(<<Lit("gpt-4-"), Alt(<<Lit("0125"), Lit("1106")>>),
                 Opt(Lit("-preview"))>>), "suffix", 131072),
     MaxRow(Cat(<<Lit("gpt-4"), Opt(DashDigits(4)), Lit("-vision"),
                 Opt(Lit("-preview"))>>), "full", 131072),
     DatedFull("o3-mini", 200000),
     DatedFull("o3", 200000),
     DatedFull("o4-mini", 200000),
     MaxRow(Cat(<<Lit("codex-mini"), Opt(Alt(<<Lit("-latest"), DATE>>))>>),
            "full", 200000),
     DatedFull("o1", 200000),
     DatedFull("o1-mini", 128000),
     DatedFull("o1-pro", 200000),
     DatedFull("o3-pro", 200000),
     DatedFull("o1-preview", 128000),
     MaxRow(Cat(<<Lit("gpt-3"), AnyChar, Lit("5-turbo")>>), "any", 16384),
     MaxRow(Lit("gpt-4-32k"), "any", 32768),
     MaxRow(Lit("gpt-4"), "any", 8192),
     MaxRow(Cat(<<ClaudeV1, Lit("-100k")>>), "prefix", 100000),
     MaxRow(ClaudeV1, "full", 9000),
     MaxRow(Lit("claude-2.0"), "prefix", 100000),
     MaxRow(Lit("claude-2"), "prefix", 200000),
     MaxRow(Lit("claude-3"), "prefix", 200000),
     MaxRow(Cat(<<Lit("claude-"), Alt(<<Lit("sonnet"), Lit("opus")>>), Lit("-4")>>),
            "prefix", 200000),
     MaxRow(Lit("gemini-"), "prefix", 1024000),
     MaxRow(Lit("anthropic.claude-3"), "prefix", 200000),
     MaxRow(Cat(<<Lit("anthropic.claude-"), Alt(<<Lit("sonnet"), Lit("opus")>>),
                 Lit("-4")>>), "prefix", 200000),
     MaxRow(Cat(<<Lit("anthropic.claude-v2:"), D>>), "prefix", 200000),
     MaxRow(Lit("anthropic.claude"), "prefix", 100000),
     MaxRow(Lit("deepseek"), "prefix", 64000),
     MaxRow(Lit("kimi-k2"), "prefix", 131000),
     MaxRow(Lit("moonshot"), "any", 200000),
     MaxRow(Cat(<<Lit("command"), Star(In(Word \cup {"-"})), Lit("-03-202"), D>>),
            "any", 256000),
     MaxRow(Alt(<<Lit("command"), Lit("cohere")>>), "any", 128000),
     MaxRow(Lit("grok-4"), "prefix", 256000),
     MaxRow(Lit("grok"), "prefix", 128000),
     MaxRow(Lit("magistral"), "prefix", 40000),
     MaxRow(Lit("tral"), "any", MISTRAL_AI_MAX_CONTENT) >>

MaxRowMatches(row, s) ==
  CASE row.how = "full" -> MatchFull(row.re, s)
    [] row.how = "prefix" -> MatchPrefix(row.re, s)
    [] row.how = "suffix" -> MatchSuffix(row.re, s)
    [] row.how = "any" -> MatchAnywhere(row.re, s)

\* modelMax: the limit of the first branch that matches, 200000 if none does
ModelMaxOf(s) ==
  LET hits == {k \in 1..Len(MODEL_MAX_CHAIN) : MaxRowMatches(MODEL_MAX_CHAIN[k], s)}
  IN IF hits = {} THEN 200000 ELSE MODEL_MAX_CHAIN[SetMin(hits)].max

\* the same, once per model (a table, so that each name is matched once)
ModelMax == [m \in CtxModelStrings \cup ModelStrings |-> ModelMaxOf(S(m))]

Min(a, b) == IF a <= b THEN a ELSE b

\* the deployment-wide limit of a dialect: the switch on req.outboundApi and
\* proxyMax ||= Number.MAX_SAFE_INTEGER; config holds maxContextTokensOpenAI
\* and maxContextTokensAnthropic
DeploymentMax(outboundApi, config) ==
  LET configured ==
        CASE outboundApi \in {"openai", "openai-text", "openai-responses"} ->
               config.maxContextTokensOpenAI
          [] outboundApi \in {"anthropic-chat", "anthropic-text"} ->
               config.maxContextTokensAnthropic
          [] outboundApi = "google-ai" -> GOOGLE_AI_MAX_CONTEXT
          [] outboundApi \in {"mistral-ai", "mistral-text"} -> MISTRAL_AI_MAX_CONTENT
  IN IF configured = 0 THEN MAX_SAFE_INTEGER ELSE configured

\* proxyMax as validateContextSize enforces it
ProxyMax(req, config) ==
  IF req.userType = "special" THEN MAX_SAFE_INTEGER
  ELSE DeploymentMax(req.outboundApi, config)

\* assertRequestHasTokenCounts: both counts are integers of at least 1
HasTokenCounts(req) == req.promptTokens >= 1 /\ req.outputTokens >= 1

\* a validation that forgets the model's own limit
validateContextSize_proxyOnly(req, config) ==
  IF ~HasTokenCounts(req) THEN FALSE
  ELSE IF req.outboundApi = "openai-image" THEN TRUE
  ELSE req.promptTokens + req.outputTokens <= ProxyMax(req, config)

\* validateContextSize: TRUE when it returns, FALSE when it throws
validateContextSize(req, config) ==
  IF ~HasTokenCounts(req) THEN FALSE
  ELSE IF req.outboundApi = "openai-image" THEN TRUE
  ELSE req.promptTokens + req.outputTokens
         <= Min(ProxyMax(req, config), ModelMax[req.model])

Event(op, r, hash, status, type, out) ==
  [op |-> op, req |-> r, hash |-> hash, status |-> status, type |-> type,
   out |-> out]

(***************************************************************************)
(* The state machine.                                                      *)
(***************************************************************************)
\* no response is being streamed
NoStream == [phase |-> "none"]

\* the geoblock middleware has not been called
NoCall == [called |-> FALSE]

\* buildInfo has not been called
NoInfo == [called |-> FALSE]

\* no models list is being followed
NoModels == [router |-> "none"]

\* no request body is being followed
NoBody == [router |-> "none"]

Config(openai, anthropic) ==
  [maxContextTokensOpenAI |-> openai, maxContextTokensAnthropic |-> anthropic]

\* a deployment that sets no context limit of its own
NoLimits == Config(0, 0)

Scenario(svc, hs, rs, cs, n, config) ==
  [service |-> svc, hashes |-> hs, requests |-> rs, codes |-> cs,
   dispatches |-> n, config |-> config]

\* every service with one key and one request; two requests over two keys;
\* two requests that share a key; one request over two keys
Scenarios ==
  {Scenario(svc, {"k1"}, {"r1"}, StatusCodes, MaxDispatches, NoLimits) :
     svc \in LLM_SERVICES}
  \cup {Scenario("moonshot", {"k1", "k2"}, {"r1", "r2"}, {200, 401, 429},
                 PairDispatches, NoLimits)}
  \cup {Scenario("google-ai", {"k1"}, {"r1", "r2"}, {200, 429}, PairDispatches,
                 NoLimits)}
  \cup {Scenario("anthropic", {"k1", "k2"}, {"r1"}, {200, 401, 429},
                 PairDispatches, NoLimits)}

\* the dispatches of a run so far
RECURSIVE Dispatches(_, _)
Dispatches(rs, ids) ==
  IF ids = {} THEN 0
  ELSE LET r == CHOOSE x \in ids : TRUE
       IN rs[r].attempts + Dispatches(rs, ids \ {r})

Boot(scenario) ==
  /\ scn = scenario
  /\ now = 0
  /\ keys = [h \in Hashes |-> NewKey(service, h)]
  /\ heap = <<>>
  /\ reqs = [r \in ReqIds |-> NoRequest]
  /\ queue = <<>>
  /\ markedAt = [h \in Hashes |-> -1]
  /\ order = <<>>
  /\ ev = Event("init", "none", "none", 0, "none", "none")
  /\ stream = NoStream
  /\ geo = NoCall
  /\ info = NoInfo
  /\ models = NoModels
  /\ body = NoBody

Init == \E scenario \in Scenarios : Boot(scenario)

\* how long the run is followed
Horizon ==
  IF service \in {"cohere", "moonshot"} /\ Cardinality(ReqIds) = 1
  THEN RetryTime ELSE MaxTime

\* time passes
Tick(d) ==
  /\ now + d <= Horizon
  /\ now' = now + d
  /\ ev' = Event("tick", "none", "none", 0, "none", "none")
  /\ UNCHANGED <<scn, keys, heap, reqs, queue, markedAt, order, stream, geo, info, models, body>>

\* a request goes through the preprocessors: getModelFamilyForRequest,
\* countPromptTokens (the counts are p and o) and validateContextSize; it joins
\* the queue, or the client is told why not
Preprocess(r, m, u, p, o) ==
  /\ r \in ReqIds
  /\ reqs[r].st = "new"
  /\ \E i \in DOMAIN Arrivals :
       Arrivals[i] = r /\ \A j \in 1..(i - 1) : reqs[Arrivals[j]].st # "new"
  /\ \E req0 \in {[NoRequest EXCEPT !.model = m[1], !.outboundApi = m[2],
                                     !.userType = u, !.promptTokens = p,
                                     !.outputTokens = o]} :
     \E req1 \in {[req0 EXCEPT !.modelFamily =
                                  getModelFamilyForRequest(service, req0)]} :
        IF validateContextSize(req1, scn.config)
        THEN /\ reqs' = [reqs EXCEPT ![r] =
                           [req1 EXCEPT !.st = "queued",
                                        !.enq = 1 + Cardinality({x \in ReqIds :
                                                                  reqs[x].enq > 0})]]
             /\ queue' = enqueue(queue, r)
             /\ ev' = Event("enqueue", r, "none", 0, "none", "none")
        ELSE /\ reqs' = [reqs EXCEPT ![r] =
                           [req1 EXCEPT !.st = "done", !.responses = <<400>>]]
             /\ queue' = queue
             /\ ev' = Event("reject", r, "none", 400, "none", "none")
  /\ UNCHANGED <<scn, now, keys, heap, markedAt, order, stream, geo, info, models, body>>

\* the dispatcher pops the head of a partition and KeyPool.get assigns a key
Dispatch(r, h) ==
  /\ reqs[r].st = "queued"
  /\ Dispatches(reqs, ReqIds) < scn.dispatches
  /\ Provider_available(keys) > 0
  /\ r = PartitionHead(queue, reqs, reqs[r].modelFamily)
  /\ h \in AvailableKeys(keys)
  /\ keys' = Provider_get(keys, h, now)
  /\ reqs' = [reqs EXCEPT ![r] = [Sign(@) EXCEPT !.st = "inflight",
                                                 !.key = keys'[h],
                                                 !.attempts = @ + 1]]
  /\ queue' = Remove(queue, r)
  /\ order' = IF \E i \in 1..Len(order) : order[i] = r THEN order
              ELSE Append(order, r)
  /\ ev' = Event("get", r, h, 0, "none", "none")
  /\ UNCHANGED <<scn, now, heap, markedAt, stream, geo, info, models, body>>

\* get called for a waiting request when every key is disabled: it throws
\* before it touches a record
GetFails(r) ==
  /\ reqs[r].st = "queued"
  /\ r = PartitionHead(queue, reqs, reqs[r].modelFamily)
  /\ AvailableKeys(keys) = {}
  /\ ev' = Event("nokeys", r, "none", 0, "none", "none")
  /\ UNCHANGED <<scn, now, keys, heap, reqs, queue, markedAt, order, stream, geo, info, models, body>>

\* what a finished handler leaves behind: createOnProxyResHandler's stack after
\* handleUpstreamErrors, and its catch block
Finish(r, statusCode, type, res) ==
  LET req == reqs[r]
      h == req.key.hash
      r1 == [changeManager_revert(req) EXCEPT
               !.retryCount = res.rc,
               !.refunds = IF res.refund THEN @ + 1 ELSE @]
  IN
  /\ heap' = res.hp
  /\ markedAt' = [k \in Hashes |->
                    IF res.ks[k] # keys[k]
                       /\ res.ks[k].rateLimitedAt = now
                       /\ res.ks[k].rateLimitedUntil = now + RATE_LIMIT_LOCKOUT
                    THEN now ELSE markedAt[k]]
  /\ ev' = Event("res", r, h, statusCode, type, res.out)
  /\ CASE res.out = "retry" ->
            /\ keys' = res.ks
            /\ reqs' = [reqs EXCEPT ![r] = [r1 EXCEPT !.st = "queued", !.reenq = @ + 1]]
            /\ queue' = enqueue(queue, r)
       [] res.out = "delay" ->
            /\ keys' = res.ks
            /\ reqs' = [reqs EXCEPT ![r] = [r1 EXCEPT !.st = "delay", !.since = now]]
            /\ queue' = queue
       [] res.out = "send" ->
            /\ keys' = res.ks
            /\ reqs' = [reqs EXCEPT ![r] =
                          [r1 EXCEPT !.st = "done",
                                     !.responses = Append(@, statusCode)]]
            /\ queue' = queue
       [] res.out = "threw" ->
            /\ keys' = res.ks
            /\ reqs' = [reqs EXCEPT ![r] =
                          [r1 EXCEPT !.st = "done", !.responses = Append(@, 500)]]
            /\ queue' = queue
       [] res.out = "return" ->
            /\ keys' = KeyPool_incrementUsage(res.ks, req.key, req.modelFamily,
                                              TokensOf(req))
            /\ reqs' = [reqs EXCEPT ![r] =
                          [r1 EXCEPT !.st = "done", !.counted = @ + 1,
                                     !.responses = Append(@, 200)]]
            /\ queue' = queue

\* the upstream answers a request without streaming
ProxyRes(r, statusCode, b) ==
  /\ reqs[r].st = "inflight"
  /\ b \in BodiesFor(service, statusCode)
  /\ \E res \in {handleUpstreamErrors(keys, heap, reqs[r], statusCode, b, now)} :
       Finish(r, statusCode, IF b.json THEN ErrorType(b) ELSE "none", res)
  /\ UNCHANGED <<scn, now, order, stream, geo, info, models, body>>

\* the timer of a Cohere or Moonshot rate-limit handler fires
Wake(r) ==
  /\ reqs[r].st = "delay"
  /\ now >= reqs[r].since + MinDelay(service)
  /\ \E res \in {Reenqueue(keys, heap, reqs[r].retryCount)} :
       Finish(r, 429, "none", res)
  /\ UNCHANGED <<scn, now, order, stream, geo, info, models, body>>

\* KeyPool.recheck(service), the checker and config.checkKeys being set
Recheck ==
  /\ keys' = Provider_recheck(keys)
  /\ ev' = Event("recheck", "none", "none", 0, "none", "none")
  /\ UNCHANGED <<scn, now, heap, reqs, queue, markedAt, order, stream, geo, info, models, body>>

Next ==
  \/ \E d \in TickSteps : Tick(d)
  \/ \E r \in ReqIds, m \in RequestsOf(service) : Preprocess(r, m, "normal", 1, 1)
  \/ \E r \in ReqIds, h \in Hashes : Dispatch(r, h)
  \/ \E r \in ReqIds : GetFails(r)
  \/ \E r \in ReqIds, c \in scn.codes, b \in BodiesOf(service) : ProxyRes(r, c, b)
  \/ \E r \in ReqIds : Wake(r)
  \/ Recheck

Spec == Init /\ [][Next]_vars

(***************************************************************************)
(* The preprocessing stage on its own, over models, dialects, user types,  *)
(* token counts and configured limits.                                     *)
(***************************************************************************)
CtxRequestsOf(svc) ==
  CASE svc = "openai" ->
         {<<"gpt-4", "openai">>, <<"gpt-3.5-turbo-16k", "openai-text">>,
          <<"gpt-4o", "openai-responses">>, <<"o1-mini", "openai">>,
          <<"gpt-4.1-mini", "openai">>, <<"dall-e-3", "openai-image">>}
    [] svc = "anthropic" ->
         {<<"claude-2.0", "anthropic-text">>, <<"claude-v1", "anthropic-text">>,
          <<"claude-3-5-sonnet-20241022", "anthropic-chat">>,
          <<"claude-opus-4-20250514", "anthropic-chat">>}
    [] svc = "google-ai" -> {<<"gemini-1.5-pro", "google-ai">>}
    [] svc = "mistral-ai" ->
         {<<"mistral-large-latest", "mistral-ai">>,
          <<"magistral-medium-latest", "mistral-text">>}
    [] svc = "aws" ->
         {<<"anthropic.claude-3-sonnet-20240229-v1:0", "anthropic-chat">>,
          <<"anthropic.claude-v2:1", "anthropic-text">>}
    [] svc = "gcp" -> {<<"claude-3-5-sonnet-v2@20241022", "anthropic-chat">>}
    [] svc = "azure" -> {<<"gpt-4o", "openai">>, <<"dall-e-3", "openai-image">>}
    [] svc = "deepseek" -> {<<"deepseek-chat", "openai">>}
    [] svc = "xai" -> {<<"grok-3", "openai">>, <<"grok-4", "openai">>}
    [] svc = "cohere" ->
         {<<"command-r", "openai">>, <<"command-a-03-2025", "openai">>}
    [] svc = "qwen" -> {<<"qwen-max", "openai">>}
    [] svc = "moonshot" ->
         {<<"moonshot-v1-8k", "openai">>, <<"kimi-k2-0711-preview", "openai">>}

\* req.user?.type ("none": the request has no user)
UserTypes == {"none", "normal", "special"}

\* what countPromptTokens assigns: 0 is a count that is missing
PromptTokenCounts ==
  {0, 1, 8000, 9000, 33000, 64000, 84000, 130000, 200000, 1100000}

OutputTokenCounts == {0, 1, 192, 1000}

CtxConfigs == {NoLimits, Config(32768, 32768), Config(8192, 100000)}

CtxScenarios ==
  {Scenario(svc, {"k1"}, {"r1"}, {}, 0, config) :
     svc \in LLM_SERVICES, config \in CtxConfigs}

InitCtx == \E scenario \in CtxScenarios : Boot(scenario)

NextCtx ==
  \E r \in ReqIds, m \in CtxRequestsOf(service), u \in UserTypes,
     p \in PromptTokenCounts, o \in OutputTokenCounts : Preprocess(r, m, u, p, o)

SpecCtx == InitCtx /\ [][NextCtx]_vars

(***************************************************************************)
(* KeyPool.available over pools with disabled and rate-limited keys.       *)
(***************************************************************************)
\* KeyPool.getServiceForModel; "threw" when it throws
getServiceForModel(model) ==
  IF StartsWith(model, S("deepseek")) THEN "deepseek"
  ELSE IF \/ StartsWith(model, S("gpt"))
          \/ StartsWith(model, S("text-embedding-ada"))
          \/ StartsWith(model, S("dall-e")) THEN "openai"
  ELSE IF StartsWith(model, S("claude-"))
  THEN IF ~Includes(model, S("@")) THEN "anthropic" ELSE "gcp"
  ELSE IF Includes(model, S("gemini")) THEN "google-ai"
  ELSE IF Includes(model, S("mistral")) THEN "mistral-ai"
  ELSE IF Includes(model, S("xai")) THEN "xai"
  ELSE IF Includes(model, S("command")) \/ Includes(model, S("cohere"))
  THEN "cohere"
  ELSE IF Includes(model, S("qwen")) THEN "qwen"
  ELSE IF Includes(model, S("moonshot")) THEN "moonshot"
  ELSE IF StartsWith(model, S("anthropic.claude")) THEN "aws"
  ELSE IF StartsWith(model, S("azure")) THEN "azure"
  ELSE "threw"

\* KeyPool.available(model): the sum over the providers, of which the one of
\* service svc holds the keys ks and the others hold none
KeyPool_available(ks, svc, model) ==
  IF model = "all" THEN [threw |-> FALSE, n |-> Provider_available(ks)]
  ELSE LET s == getServiceForModel(S(model))
       IN IF s = "threw" THEN [threw |-> TRUE, n |-> 0]
          ELSE [threw |-> FALSE, n |-> IF s = svc THEN Provider_available(ks) ELSE 0]

\* the pools: two keys, any of them disabled, any of them rate-limited at 0
PoolKeys(svc, hs, dis, lim) ==
  LET fresh == [h \in hs |-> NewKey(svc, h)]
      marked(h) == IF h \in lim THEN Provider_markRateLimited(fresh, h, 0) ELSE fresh
  IN [h \in hs |->
        (IF h \in dis THEN Provider_disable(marked(h), h) ELSE marked(h))[h]]

InitPool ==
  \E svc \in LLM_SERVICES, dis \in SUBSET {"k1", "k2"}, lim \in SUBSET {"k1", "k2"} :
    /\ scn = Scenario(svc, {"k1", "k2"}, {"r1"}, {}, 0, NoLimits)
    /\ now = 0
    /\ keys = PoolKeys(svc, {"k1", "k2"}, dis, lim)
    /\ heap = <<>>
    /\ reqs = [r \in {"r1"} |-> NoRequest]
    /\ queue = <<>>
    /\ markedAt = [h \in {"k1", "k2"} |-> IF h \in lim THEN 0 ELSE -1]
    /\ order = <<>>
    /\ ev = Event("init", "none", "none", 0, "none", "none")
    /\ stream = NoStream
    /\ geo = NoCall
    /\ info = NoInfo
    /\ models = NoModels
    /\ body = NoBody

\* the models asked about: those the service serves, and "all"
PoolQueries(svc) == {x[1] : x \in CtxRequestsOf(svc)} \cup {"all"}

\* a call of keyPool.available(model)
Available(model) ==
  /\ \E res \in {KeyPool_available(keys, service, model)} :
       ev' = Event("available", "none", "none", res.n, model,
                   IF res.threw THEN "threw" ELSE "return")
  /\ UNCHANGED <<scn, now, keys, heap, reqs, queue, markedAt, order, stream, geo, info, models, body>>

NextPool == \E model \in PoolQueries(service) : Available(model)

SpecPool == InitPool /\ [][NextPool]_vars

(***************************************************************************)
(* A streamed response.  The upstream sends SSE messages one at a time     *)
(* (the framing is below the transformer); SSEMessageTransformer turns     *)
(* each into the events pushed downstream; what is pushed is written to    *)
(* the client.  An upstream message is known by what its transformer makes *)
(* of it:                                                                  *)
(*   "role"     an event whose delta is {role: 'assistant', content: ''}   *)
(*   "content"  an event that carries text                                 *)
(*   "filter"   Azure's prompt_filter_results event                        *)
(*   "ping"     a message the transformer maps to no event (a ping,        *)
(*              message_start)                                             *)
(*   "bad"      a message on which the transformer throws                  *)
(***************************************************************************)
\* the messages a stream may carry
MaxChunks == 3

\* APIFormat, without openai-image (image requests are not streamed)
StreamFormats ==
  { "openai", "openai-text", "openai-responses", "anthropic-text",
    "anthropic-chat", "google-ai", "mistral-ai", "mistral-text" }

\* the anthropic-version header: the first API version and a later one
ApiVersions == {"2023-01-01", "2023-06-01"}

\* the dialects in which a client may have asked for a stream that the upstream
\* answers in a format: its own, or the OpenAI one
RequestFormats(inputFormat) ==
  {"openai"} \cup
    CASE inputFormat = "anthropic-chat" -> {"anthropic-chat", "anthropic-text"}
      [] inputFormat = "mistral-text" -> {"mistral-ai"}
      [] OTHER -> {inputFormat}

\* the services that answer in a format
ServicesOf(inputFormat) ==
  CASE inputFormat \in {"openai", "openai-text", "openai-responses"} ->
         {"openai", "azure", "deepseek"}
    [] inputFormat \in {"anthropic-text", "anthropic-chat"} ->
         {"anthropic", "aws", "gcp"}
    [] inputFormat = "google-ai" -> {"google-ai"}
    [] inputFormat \in {"mistral-ai", "mistral-text"} -> {"mistral-ai"}

\* the kinds of message an upstream of a format sends
ChunkKinds(inputFormat) ==
  {"content", "ping", "bad"}
    \cup (IF inputFormat \in {"openai", "openai-responses", "mistral-ai"}
          THEN {"role"} ELSE {})
    \cup (IF inputFormat = "openai" THEN {"filter"} ELSE {})

getTransformer(responseApi, version, requestApi) ==
  CASE responseApi = "openai" -> "passthroughToOpenAI"
    [] responseApi = "openai-text" -> "openAITextToOpenAIChat"
    [] responseApi = "anthropic-text" ->
         IF version = "2023-01-01" THEN "anthropicV1ToOpenAI"
         ELSE "anthropicV2ToOpenAI"
    [] responseApi = "anthropic-chat" ->
         IF requestApi = "anthropic-text" THEN "anthropicChatToAnthropicV2"
         ELSE "anthropicChatToOpenAI"
    [] responseApi = "google-ai" -> "googleAIToOpenAI"
    [] responseApi = "mistral-ai" -> "mistralAIToOpenAI"
    [] responseApi = "mistral-text" ->
         IF requestApi = "mistral-ai" THEN "mistralTextToMistralChat"
         ELSE "mistralAIToOpenAI"
    [] responseApi = "openai-image" -> "threw"
    [] responseApi = "openai-responses" -> "passthroughToOpenAI"

\* an event as the client sees it: its object and what its delta holds
SseEvent(object, delta) == [object |-> object, delta |-> delta]

\* this.transformFn({data, ..}): the event a transformer makes of a message
\* (object "none": no event; object "threw": it throws)
transformFn(fn, kind) ==
  CASE kind = "bad" -> SseEvent("threw", "none")
    [] kind = "ping" -> SseEvent("none", "none")
    [] OTHER ->
         SseEvent(IF fn \in {"anthropicChatToAnthropicV2", "mistralTextToMistralChat"}
                  THEN "completion" ELSE "chat.completion.chunk",
                  kind)

eventIsOpenAIEvent(event) == event.object = "chat.completion.chunk"

createInitialMessage(event) == [event EXCEPT !.delta = "role"]

\* the n-th event of the upstream's stream
UpstreamEvent(n, kind) == [n |-> n, kind |-> kind]

\* a transformer that keeps to itself the events it does not map
SSEMessageTransformer_transform_mappedOnly(msgCount, inputFormat, fn, kind) ==
  LET count == msgCount + 1
      transformedMessage == transformFn(fn, kind)
      result(pushed, original, err) ==
        [msgCount |-> count, pushed |-> pushed, original |-> original, err |-> err]
  IN IF transformedMessage.object = "threw" THEN result(<<>>, FALSE, TRUE)
     ELSE IF transformedMessage.object = "none" THEN result(<<>>, FALSE, FALSE)
     ELSE IF inputFormat = "openai" /\ count <= 1 /\ kind = "filter"
     THEN result(<<>>, FALSE, FALSE)
     ELSE IF count = 1 /\ eventIsOpenAIEvent(transformedMessage)
     THEN result(<<createInitialMessage(transformedMessage), transformedMessage>>,
                 TRUE, FALSE)
     ELSE result(<<transformedMessage>>, TRUE, FALSE)

\* SSEMessageTransformer._transform on a message: msgCount afterwards, the
\* events pushed, whether originalMessage was emitted, whether callback got an
\* error
SSEMessageTransformer_transform(msgCount, inputFormat, fn, kind) ==
  LET count == msgCount + 1
      transformedMessage == transformFn(fn, kind)
      result(pushed, original, err) ==
        [msgCount |-> count, pushed |-> pushed, original |-> original, err |-> err]
  IN IF transformedMessage.object = "threw" THEN result(<<>>, FALSE, TRUE)
     ELSE IF inputFormat = "openai" /\ count <= 1 /\ kind = "filter"
     THEN result(<<>>, FALSE, FALSE)
     ELSE IF transformedMessage.object = "none" THEN result(<<>>, TRUE, FALSE)
     ELSE IF count = 1 /\ eventIsOpenAIEvent(transformedMessage)
     THEN result(<<createInitialMessage(transformedMessage), transformedMessage>>,
                 TRUE, FALSE)
     ELSE result(<<transformedMessage>>, TRUE, FALSE)

\* the terminators: the end of a stream that succeeded, and the error event
DoneEvent == SseEvent("[DONE]", "none")
ErrorEvent == SseEvent("error", "none")

\* the stream of a request once its transformer is constructed and the SSE
\* headers are sent
NewStream(inputFormat, version, outputFormat) ==
  [ phase |-> "open", inputFormat |-> inputFormat, version |-> version,
    outputFormat |-> outputFormat,
    transformFn |-> getTransformer(inputFormat, version, outputFormat),
    msgCount |-> 0, originals |-> 0, client |-> <<>>,
    upstream |-> <<>>, side |-> <<>>,
    headersSent |-> TRUE, writableEnded |-> FALSE, failed |-> FALSE ]

\* an error event that is never written
StreamFailure_silent(s) ==
  [s EXCEPT !.phase = "closed", !.failed = TRUE, !.writableEnded = TRUE]

\* the stream after its transformer failed: the error event goes to the client
\* and the response is closed
StreamFailure(s) ==
  [s EXCEPT !.phase = "closed", !.failed = TRUE,
            !.client = Append(@, ErrorEvent), !.writableEnded = TRUE]

\* the stream after the upstream's [DONE] or its close
StreamEnd(s) ==
  [s EXCEPT !.phase = "closed", !.client = Append(@, DoneEvent),
            !.writableEnded = TRUE]

\* the catch block of createOnProxyResHandler for an error that is neither
\* retryable nor an HttpError: the response is ended if it is not, or a 500
\* is sent when no header has gone out
OnMiddlewareError(s) ==
  IF s.headersSent
  THEN [s EXCEPT !.writableEnded = TRUE, !.phase = "finished"]
  ELSE [s EXCEPT !.client = Append(@, SseEvent("json", "500")),
                 !.headersSent = TRUE, !.writableEnded = TRUE,
                 !.phase = "finished"]

InitStream ==
  \E inputFormat \in StreamFormats, version \in ApiVersions :
    \E svc \in ServicesOf(inputFormat), outputFormat \in RequestFormats(inputFormat) :
      /\ scn = Scenario(svc, {"k1"}, {"r1"}, {}, 0, NoLimits)
      /\ now = 0
      /\ keys = [h \in {"k1"} |-> NewKey(svc, h)]
      /\ heap = <<>>
      /\ reqs = [r \in {"r1"} |-> NoRequest]
      /\ queue = <<>>
      /\ markedAt = [h \in {"k1"} |-> -1]
      /\ order = <<>>
      /\ ev = Event("init", "none", "none", 0, "none", "none")
      /\ stream = NewStream(inputFormat, version, outputFormat)
      /\ geo = NoCall
      /\ info = NoInfo
      /\ models = NoModels
      /\ body = NoBody

\* the upstream sends a message; what the transformer pushes is written to the
\* client.  An upstream opens its answer once, before any text, and Azure's
\* filter event is the first message of a stream.
Chunk(kind) ==
  /\ stream.phase = "open"
  /\ stream.msgCount < MaxChunks
  /\ kind \in ChunkKinds(stream.inputFormat)
  /\ kind = "role" => stream.client = <<>>
  /\ kind = "filter" => stream.msgCount = 0
  /\ \E res \in {SSEMessageTransformer_transform(stream.msgCount, stream.inputFormat,
                                                 stream.transformFn, kind)} :
     \E arrived \in {UpstreamEvent(Len(stream.upstream) + 1, kind)} :
       stream' = IF res.err
                 THEN StreamFailure([stream EXCEPT !.msgCount = res.msgCount,
                                                   !.upstream = Append(@, arrived)])
                 ELSE [stream EXCEPT !.msgCount = res.msgCount,
                                     !.originals = IF res.original THEN @ + 1 ELSE @,
                                     !.upstream = Append(@, arrived),
                                     !.side = IF res.original THEN Append(@, arrived)
                                              ELSE @,
                                     !.client = @ \o res.pushed]
  /\ ev' = Event("chunk", "r1", "none", 0, kind, "none")
  /\ UNCHANGED <<scn, now, keys, heap, reqs, queue, markedAt, order, geo, info, models, body>>

\* the upstream ends the stream
UpstreamEnd ==
  /\ stream.phase = "open"
  /\ stream' = StreamEnd(stream)
  /\ ev' = Event("end", "r1", "none", 0, "none", "none")
  /\ UNCHANGED <<scn, now, keys, heap, reqs, queue, markedAt, order, geo, info, models, body>>

\* the rest of createOnProxyResHandler: the middleware of a streaming request
\* writes nothing; when one of them throws, or the stream had failed, the
\* catch block runs
AfterStream(throws) ==
  /\ stream.phase = "closed"
  /\ stream' = IF throws \/ stream.failed THEN OnMiddlewareError(stream)
                ELSE [stream EXCEPT !.phase = "finished"]
  /\ ev' = Event("after", "r1", "none", 0, "none",
                 IF throws \/ stream.failed THEN "threw" ELSE "return")
  /\ UNCHANGED <<scn, now, keys, heap, reqs, queue, markedAt, order, geo, info, models, body>>

NextStream ==
  \/ \E kind \in {"role", "content", "filter", "ping", "bad"} : Chunk(kind)
  \/ UpstreamEnd
  \/ \E throws \in BOOLEAN : AfterStream(throws)

SpecStream == InitStream /\ [][NextStream]_vars

(***************************************************************************)
(* The geoblock middleware (geoblock.ts).  geoip.lookup(ip) gives null, a  *)
(* record without a country, a record with one, or throws.                 *)
(***************************************************************************)
\* config.GEOBLOCK_ALLOWED_COUNTRIES: undefined, or a list
CountryLists ==
  { [defined |-> FALSE, countries |-> {}],
    [defined |-> TRUE, countries |-> {}],
    [defined |-> TRUE, countries |-> {"RU"}],
    [defined |-> TRUE, countries |-> {"RU", "BY"}],
    [defined |-> TRUE, countries |-> {"US"}] }

GeoConfigs ==
  [ GEOBLOCK_ENABLED : BOOLEAN,
    GEOBLOCK_ALLOWED_COUNTRIES : CountryLists,
    GEOBLOCK_DB_PATH : {"undefined", "/some/path/db.mmdb"} ]

\* req.ip
ClientIps == {"undefined", "1.2.3.4", "127.0.0.1"}

\* what geoip.lookup does with an address
LookupOutcomes == {"throws", "null", "nocountry", "RU", "BY", "US"}

\* what a call of the middleware did: how often it called next, the status it
\* answered with (0: no response), the country code it reported, and whether
\* an error left it
GeoResult(nexts, status, country, threw) ==
  [nexts |-> nexts, status |-> status, country_code |-> country, threw |-> threw]

CallsNext == GeoResult(1, 0, "none", FALSE)

\* geoblockMiddleware(req, res, next), req.ips being ips and geoip.lookup
\* doing lookup with req.ip
geoblockMiddleware(config, clientIp, ips, lookup) ==
  IF ~config.GEOBLOCK_ENABLED THEN CallsNext
  ELSE IF clientIp = "undefined" THEN CallsNext
  ELSE IF clientIp \in ips /\ lookup = "throws"
  THEN GeoResult(0, 0, "none", TRUE)
  ELSE IF clientIp \in ips /\ lookup = "null" THEN CallsNext
  ELSE IF lookup = "throws" THEN CallsNext
  ELSE IF lookup \in {"null", "nocountry"} THEN CallsNext
  ELSE LET allowedCountries ==
             IF config.GEOBLOCK_ALLOWED_COUNTRIES.defined
             THEN config.GEOBLOCK_ALLOWED_COUNTRIES.countries
             ELSE {"RU"}
       IN IF lookup \in allowedCountries THEN CallsNext
          ELSE GeoResult(0, 403, lookup, FALSE)

InitGeo ==
  \E config \in GeoConfigs :
    /\ scn = Scenario("openai", {"k1"}, {"r1"}, {}, 0, NoLimits)
    /\ now = 0
    /\ keys = [h \in {"k1"} |-> NewKey("openai", h)]
    /\ heap = <<>>
    /\ reqs = [r \in {"r1"} |-> NoRequest]
    /\ queue = <<>>
    /\ markedAt = [h \in {"k1"} |-> -1]
    /\ order = <<>>
    /\ ev = Event("init", "none", "none", 0, "none", "none")
    /\ stream = NoStream
    /\ geo = [called |-> FALSE, config |-> config]
    /\ info = NoInfo
    /\ models = NoModels
    /\ body = NoBody

\* a request passes through the middleware
GeoRequest(clientIp, ips, lookup) ==
  /\ ips \subseteq {clientIp} \ {"undefined"}
  /\ geo' = [ called |-> TRUE, config |-> geo.config, ip |-> clientIp,
              ips |-> ips, lookup |-> lookup,
              result |-> geoblockMiddleware(geo.config, clientIp, ips, lookup) ]
  /\ ev' = Event("geoblock", "none", "none", geo'.result.status, "none",
                 IF geo'.result.threw THEN "threw" ELSE "return")
  /\ UNCHANGED <<scn, now, keys, heap, reqs, queue, markedAt, order, stream, info, models, body>>

NextGeo ==
  \E clientIp \in ClientIps, ips \in SUBSET ClientIps, lookup \in LookupOutcomes :
    GeoRequest(clientIp, ips, lookup)

SpecGeo == InitGeo /\ [][NextGeo]_vars

(***************************************************************************)
(* The info page (buildInfo).  The pool is what keyPool.list() and the     *)
(* queue report when the page is built.                                    *)
(***************************************************************************)
\* the info page is followed for this long (milliseconds)
InfoTime == 3000

\* the prompts the pool has served are followed up to this many
MaxProompts == 2

\* const CACHE_TTL
CACHE_TTL == 2000

\* Date.now() when the process starts: a time of day later than the first
\* minutes of 1970
ProcessStart == 100000

BaseUrls == {"http://a", "http://b"}

\* config.staticServiceInfo and config.textModelRateLimit
InfoConfigs == [staticServiceInfo : BOOLEAN, textModelRateLimit : BOOLEAN]

\* a field of the page: present with a value, or deleted
Field(v) == [present |-> TRUE, v |-> v]

Deleted == [present |-> FALSE]

\* getTrafficStats
getTrafficStats(config, pool) ==
  [ proompts |-> Field(pool.proompts),
    tookens |-> Field(pool.proompts),
    proomptersNow |-> IF config.textModelRateLimit THEN Field(pool.ips)
                      ELSE Deleted ]

\* getInfoForFamily, for the one family the pool's key serves
getInfoForFamily(pool) ==
  [ usage |-> Field(pool.proompts),
    activeKeys |-> Field(1),
    proomptersInQueue |-> Field(pool.queued),
    estimatedQueueTime |-> Field(pool.queued) ]

\* the page buildInfo computes when it does not answer from the cache
ComputeInfo(config, pool, baseUrl, forAdmin) ==
  LET trafficStats == getTrafficStats(config, pool)
      modelFamilyInfo == getInfoForFamily(pool)
      static == config.staticServiceInfo /\ ~forAdmin
  IN [ endpoints |-> baseUrl,
       proompts |-> IF static THEN Deleted ELSE trafficStats.proompts,
       tookens |-> IF static THEN Deleted ELSE trafficStats.tookens,
       proomptersNow |-> IF static THEN Deleted ELSE trafficStats.proomptersNow,
       usage |-> IF static THEN Deleted ELSE modelFamilyInfo.usage,
       proomptersInQueue |->
         IF static THEN Deleted ELSE modelFamilyInfo.proomptersInQueue,
       estimatedQueueTime |->
         IF static THEN Deleted ELSE modelFamilyInfo.estimatedQueueTime,
       activeKeys |-> modelFamilyInfo.activeKeys ]

\* a buildInfo that stamps the page it caches
buildInfo_stamped(inf, pool, baseUrl, forAdmin, t) ==
  IF inf.cacheTime + CACHE_TTL > t
  THEN [inf EXCEPT !.called = TRUE, !.result = inf.cachedInfo,
                   !.baseUrl = baseUrl, !.forAdmin = forAdmin, !.at = t]
  ELSE LET page == ComputeInfo(inf.config, pool, baseUrl, forAdmin)
       IN [inf EXCEPT !.called = TRUE, !.cachedInfo = page, !.result = page,
                      !.cacheTime = t,
                      !.baseUrl = baseUrl, !.forAdmin = forAdmin, !.at = t]

\* buildInfo(baseUrl, forAdmin) at time t: cachedInfo is assigned, cacheTime
\* never is
buildInfo(inf, pool, baseUrl, forAdmin, t) ==
  IF inf.cacheTime + CACHE_TTL > t
  THEN [inf EXCEPT !.called = TRUE, !.result = inf.cachedInfo,
                   !.baseUrl = baseUrl, !.forAdmin = forAdmin, !.at = t]
  ELSE LET page == ComputeInfo(inf.config, pool, baseUrl, forAdmin)
       IN [inf EXCEPT !.called = TRUE, !.cachedInfo = page, !.result = page,
                      !.baseUrl = baseUrl, !.forAdmin = forAdmin, !.at = t]

\* let cachedInfo: ServiceInfo | undefined; let cacheTime = 0
InitInfo ==
  \E config \in InfoConfigs :
    /\ scn = Scenario("openai", {"k1"}, {"r1"}, {}, 0, NoLimits)
    /\ now = ProcessStart
    /\ keys = [h \in {"k1"} |-> NewKey("openai", h)]
    /\ heap = <<>>
    /\ reqs = [r \in {"r1"} |-> NoRequest]
    /\ queue = <<>>
    /\ markedAt = [h \in {"k1"} |-> -1]
    /\ order = <<>>
    /\ ev = Event("init", "none", "none", 0, "none", "none")
    /\ stream = NoStream
    /\ geo = NoCall
    /\ info = [ called |-> FALSE, config |-> config,
                pool |-> [proompts |-> 0, ips |-> 0, queued |-> 0],
                cachedInfo |-> Deleted, cacheTime |-> 0, result |-> Deleted,
                baseUrl |-> "none", forAdmin |-> FALSE, at |-> 0,
                adminAt |-> -1 ]
    /\ models = NoModels
    /\ body = NoBody

\* time passes
InfoTick ==
  /\ now + 1000 <= ProcessStart + InfoTime
  /\ now' = now + 1000
  /\ ev' = Event("tick", "none", "none", 0, "none", "none")
  /\ UNCHANGED <<scn, keys, heap, reqs, queue, markedAt, order, stream, geo,
                 info, models, body>>

\* the pool serves a prompt of a client that waited in the queue or did not
InfoTraffic(queued) ==
  /\ info.pool.proompts < MaxProompts
  /\ info' = [info EXCEPT !.pool = [proompts |-> @.proompts + 1, ips |-> 1,
                                    queued |-> queued]]
  /\ ev' = Event("traffic", "none", "none", 0, "none", "none")
  /\ UNCHANGED <<scn, now, keys, heap, reqs, queue, markedAt, order, stream,
                 geo, models, body>>

\* the info page or the admin page is requested
InfoRequest(baseUrl, forAdmin) ==
  /\ \E res \in {buildInfo(info, info.pool, baseUrl, forAdmin, now)} :
       info' = [res EXCEPT !.adminAt = IF forAdmin THEN now ELSE @]
  /\ ev' = Event("info", "none", "none", 200, "none", "none")
  /\ UNCHANGED <<scn, now, keys, heap, reqs, queue, markedAt, order, stream,
                 geo, models, body>>

NextInfo ==
  \/ InfoTick
  \/ \E queued \in 0..1 : InfoTraffic(queued)
  \/ \E baseUrl \in BaseUrls, forAdmin \in BOOLEAN : InfoRequest(baseUrl, forAdmin)

SpecInfo == InitInfo /\ [][NextInfo]_vars

(***************************************************************************)
(* The models lists of the GCP, Google AI and Qwen routers: modelsCache,   *)
(* modelsCacheTime and getModelsResponse of each.                          *)
(***************************************************************************)
\* a models list is followed for this long after the process starts
ModelsTime == 120000

\* the upstream's list has at most this many entries
MaxUpstreamModels == 2

\* the listings of Qwen that are awaited at a time
MaxPending == 2

\* 1000 * 60
MODELS_CACHE_TTL == 60000

ModelsTicks == {30000}

\* the routers that keep a models cache
ModelsRouters == {"gcp", "google-ai", "qwen"}

\* String.prototype.endsWith
EndsWith(s, p) == Len(p) <= Len(s) /\ SubSeq(s, Len(s) - Len(p) + 1, Len(s)) = p

\* let modelsCache: any = null
Null == [object |-> "null"]

List(data) == [object |-> "list", data |-> data]

Model(id, created) == [id |-> id, created |-> created]

\* the variants of the GCP router's list
GcpVariantModels ==
  << "claude-3-haiku@20240307", "claude-3-5-haiku@20241022",
     "claude-3-sonnet@20240229", "claude-3-5-sonnet@20240620",
     "claude-3-5-sonnet-v2@20241022", "claude-3-7-sonnet@20250219",
     "claude-3-opus@20240229" >>

\* the modelIds the Google AI keys carry
GoogleKeyModelStrings ==
  { <<>>, <<"models/gemini-pro", "models/bard-1", "tunedModels/t1">> }

\* what getModelsResponse did: the router's state after it, what it returned,
\* and which way it took
ListResult(m, returned, out) == [m |-> m, returned |-> returned, out |-> out]

\* a cache that is never taken to be fresh
IsFresh_never(m, t) == FALSE

\* new Date().getTime() - modelsCacheTime < 1000 * 60
IsFresh(m, t) == t - m.modelsCacheTime < MODELS_CACHE_TTL

Stamped(m, list, t) ==
  ListResult([m EXCEPT !.modelsCache = list, !.modelsCacheTime = t], list,
             "computed")

\* getModelsResponse of the GCP router
gcp_getModelsResponse(m, t) ==
  IF IsFresh(m, t) THEN ListResult(m, m.modelsCache, "cached")
  ELSE IF ~m.configured THEN ListResult(m, List(<<>>), "empty")
  ELSE Stamped(m, List([i \in 1..Len(GcpVariantModels) |->
                          Model(S(GcpVariantModels[i]), t)]), t)

\* getModelsResponse of the Google AI router; ks are the keys keyPool.list()
\* returns, which all carry m.modelIds
googleAI_getModelsResponse(m, ks, t) ==
  IF IsFresh(m, t) THEN ListResult(m, m.modelsCache, "cached")
  ELSE IF ~m.configured THEN ListResult(m, List(<<>>), "empty")
  ELSE IF DOMAIN ks = {} THEN Stamped(m, List(<<>>), t)
  ELSE LET ids == [i \in 1..Len(m.modelIds) |-> S(m.modelIds[i])]
           modelIds == SelectSeq(ids, LAMBDA id :
                                   StartsWith(id, S("models/"))
                                     /\ ~Includes(id, S("bard")))
       IN Stamped(m, List([i \in 1..Len(modelIds) |->
                             Model(SubSeq(modelIds[i], Len(S("models/")) + 1,
                                          Len(modelIds[i])), t)]), t)

\* getBaseModelName: model.replace(/-thinking$|-nonthinking$/, '')
getBaseModelName(model) ==
  IF EndsWith(model, S("-thinking"))
  THEN SubSeq(model, 1, Len(model) - Len(S("-thinking")))
  ELSE IF EndsWith(model, S("-nonthinking"))
  THEN SubSeq(model, 1, Len(model) - Len(S("-nonthinking")))
  ELSE model

isQwenThinkingModel(model) ==
  LET baseModel == getBaseModelName(model)
  IN \/ StartsWith(baseModel, S("qwen3"))
     \/ baseModel \in {S("qwen-plus-latest"), S("qwen-plus-2025-04-28"),
                       S("qwen-turbo-latest"), S("qwen-turbo-2025-04-28")}

isQwen3Model(model) == StartsWith(getBaseModelName(model), S("qwen3"))

isThinkingVariant(model) == EndsWith(model, S("-thinking"))

isNonThinkingVariant(model) == EndsWith(model, S("-nonthinking"))

knownQwenModels ==
  << "qwen-max", "qwen-max-latest", "qwen-max-2025-01-25", "qwen-plus",
     "qwen-plus-latest", "qwen-plus-2025-01-25", "qwen-turbo",
     "qwen-turbo-latest", "qwen-turbo-2024-11-01", "qwen3-235b-a22b",
     "qwen3-32b", "qwen3-30b-a3b" >>

\* the model IDs the Qwen API lists
QwenUpstreamModels == {"qwen-plus", "qwen3-32b", "qwen3-32b-thinking", "qwen3-8b"}

\* an entry of the Qwen list
QwenModel(id, created, thinking, managed) ==
  [id |-> id, created |-> created, thinking |-> thinking, proxy_managed |-> managed]

\* the entry the Qwen API returns for a model: its own creation time, no
\* capabilities
UpstreamModel(id) == QwenModel(S(id), 1, FALSE, FALSE)

\* the lists of entries of at most n distinct models
RECURSIVE UpstreamLists(_)
UpstreamLists(n) ==
  IF n = 0 THEN {<<>>}
  ELSE LET shorter == UpstreamLists(n - 1)
       IN shorter \cup
          {Append(l, UpstreamModel(id)) :
             l \in {x \in shorter : Len(x) = n - 1},
             id \in QwenUpstreamModels}

\* what the Qwen API answers: the request fails, the answer has no data, its
\* data is not an array, or its data is a list of models
QwenUpstreams ==
  {[kind |-> k, data |-> <<>>] : k \in {"error", "nodata", "object"}}
  \cup {[kind |-> "array", data |-> l] :
          l \in {x \in UpstreamLists(MaxUpstreamModels) :
                   \A i, j \in 1..Len(x) : x[i] = x[j] => i = j}}

\* the thinking and the non-thinking variant of a Qwen3 model
QwenVariants(model) ==
  << QwenModel(model.id \o S("-thinking"), model.created, TRUE, TRUE),
     QwenModel(model.id \o S("-nonthinking"), model.created, TRUE, TRUE) >>

IsQwen3Base(id) ==
  isQwen3Model(id) /\ ~isThinkingVariant(id) /\ ~isNonThinkingVariant(id)

\* Array.prototype.flatMap of the entries: a Qwen3 base model gives way to its
\* variants, every other entry stays, flagged if it can think
RECURSIVE FlatMapVariants(_)
FlatMapVariants(data) ==
  IF data = <<>> THEN <<>>
  ELSE LET model == Head(data)
       IN (IF IsQwen3Base(model.id) THEN QwenVariants(model)
           ELSE << [model EXCEPT !.thinking = @ \/ isQwenThinkingModel(model.id)] >>)
          \o FlatMapVariants(Tail(data))

\* the list getModelsResponse of the Qwen router makes of the API's answer
qwen_listModels(upstream, t) ==
  LET known == [i \in 1..Len(knownQwenModels) |-> S(knownQwenModels[i])]
  IN IF upstream.kind = "array"
     THEN LET existingModelIds == {upstream.data[i].id : i \in 1..Len(upstream.data)}
              filtered == SelectSeq(upstream.data, LAMBDA model :
                                      ~IsQwen3Base(model.id))
              missing == SelectSeq(known, LAMBDA id : id \notin existingModelIds)
              pushed == [i \in 1..Len(missing) |->
                           QwenModel(missing[i], t,
                                     isQwenThinkingModel(missing[i]), FALSE)]
          IN FlatMapVariants(filtered \o pushed)
     ELSE FlatMapVariants([i \in 1..Len(known) |->
                             QwenModel(known[i], t, FALSE, FALSE)])

\* getModelsResponse of the Qwen router up to its await: the cache, or the
\* key keyPool.get draws (hash), or the fallback when get throws
qwen_getModelsResponse(m, ks, t) ==
  IF IsFresh(m, t) THEN ListResult(m, m.modelsCache, "cached")
  ELSE IF AvailableKeys(ks) = {} THEN ListResult(m, List(<<>>), "empty")
  ELSE ListResult([m EXCEPT !.pending = @ + 1], Null, "await")

\* getModelsResponse of the Qwen router after its await
qwen_getModelsResponse_resume(m, upstream, t) ==
  LET m1 == [m EXCEPT !.pending = @ - 1, !.upstream = upstream]
  IN IF upstream.kind \in {"error", "nodata"}
     THEN ListResult(m1, List(<<>>), "empty")
     ELSE Stamped(m1, List(qwen_listModels(upstream, t)), t)

InitModels ==
  \E router \in ModelsRouters, hs \in SUBSET {"k1"}, configured \in BOOLEAN,
     modelIds \in GoogleKeyModelStrings :
    /\ router = "qwen" => configured
    /\ router # "google-ai" => modelIds = <<>>
    /\ scn = Scenario(router, hs, {"r1"}, {}, 0, NoLimits)
    /\ now = ProcessStart
    /\ keys = [h \in hs |-> NewKey(router, h)]
    /\ heap = <<>>
    /\ reqs = [r \in {"r1"} |-> NoRequest]
    /\ queue = <<>>
    /\ markedAt = [h \in hs |-> -1]
    /\ order = <<>>
    /\ ev = Event("init", "none", "none", 0, "none", "none")
    /\ stream = NoStream
    /\ geo = NoCall
    /\ info = NoInfo
    /\ models = [ router |-> router, configured |-> configured,
                  modelIds |-> modelIds, modelsCache |-> Null,
                  modelsCacheTime |-> 0, pending |-> 0,
                  upstream |-> [kind |-> "none", data |-> <<>>],
                  returned |-> Null ]
    /\ body = NoBody

\* time passes
ModelsTick(d) ==
  /\ now + d <= ProcessStart + ModelsTime
  /\ now' = now + d
  /\ ev' = Event("tick", "none", "none", 0, "none", "none")
  /\ UNCHANGED <<scn, keys, heap, reqs, queue, markedAt, order, stream, geo,
                 info, models, body>>

\* handleModelRequest of the GCP and the Google AI router
ModelRequest ==
  /\ models.router \in {"gcp", "google-ai"}
  /\ \E res \in {IF models.router = "gcp" THEN gcp_getModelsResponse(models, now)
                 ELSE googleAI_getModelsResponse(models, keys, now)} :
       /\ models' = [res.m EXCEPT !.returned = res.returned]
       /\ ev' = Event("models", "none", "none", 200, "none", res.out)
  /\ UNCHANGED <<scn, now, keys, heap, reqs, queue, markedAt, order, stream,
                 geo, info, body>>

\* handleModelRequest of the Qwen router, up to the answer or to the await
QwenModelRequest(h) ==
  /\ models.router = "qwen"
  /\ models.pending < MaxPending
  /\ \E res \in {qwen_getModelsResponse(models, keys, now)} :
       /\ models' = [res.m EXCEPT !.returned = IF res.out = "await" THEN @
                                               ELSE res.returned]
       /\ IF res.out = "await"
          THEN /\ h \in AvailableKeys(keys)
               /\ keys' = Provider_get(keys, h, now)
               /\ ev' = Event("modelsGet", "none", h, 0, "none", res.out)
          ELSE /\ keys' = keys
               /\ ev' = Event("models", "none", "none", 200, "none", res.out)
  /\ UNCHANGED <<scn, now, heap, reqs, queue, markedAt, order, stream, geo,
                 info, body>>

\* the Qwen API answers, and handleModelRequest answers the client
QwenModelResponse(upstream) ==
  /\ models.router = "qwen"
  /\ models.pending > 0
  /\ \E res \in {qwen_getModelsResponse_resume(models, upstream, now)} :
       /\ models' = [res.m EXCEPT !.returned = res.returned]
       /\ ev' = Event("modelsFetched", "none", "none", 200, upstream.kind, res.out)
  /\ UNCHANGED <<scn, now, keys, heap, reqs, queue, markedAt, order, stream,
                 geo, info, body>>

NextModels ==
  \/ \E d \in ModelsTicks : ModelsTick(d)
  \/ ModelRequest
  \/ \E h \in Hashes \cup {"none"} : QwenModelRequest(h)
  \/ \E upstream \in QwenUpstreams : QwenModelResponse(upstream)

SpecModels == InitModels /\ [][NextModels]_vars

(***************************************************************************)
(* The preprocessors that rewrite req.body: maybeReassignModel of the GCP  *)
(* router and handleThinkingCapability of the Qwen router.                 *)
(***************************************************************************)
\* a body goes through its preprocessor at most this often
MaxApplications == 2

\* the models clients of the GCP router ask for
GcpRequestModelStrings ==
  { "claude-3-haiku@20240307", "claude-3-5-sonnet-v2@20241022",
    "claude-3-opus@20240229", "claude-3-sonnet", "claude-3.5-sonnet",
    "claude-3-5-haiku", "claude-3-5-haiku-latest", "claude-3-5-sonnet-20240620",
    "claude-3-5-sonnet-20241022", "claude-3-5-sonnet-latest", "claude-3-opus",
    "claude-3-haiku", "claude-3.0-opus", "claude-3-OPUS", "claude-3-5-opus",
    "claude-3-7-sonnet", "claude-3.7-sonnet-latest", "claude-3-7-opus",
    "claude-35-sonnet", "claude-4-sonnet", "claude-2.1", "claude-instant-1",
    "Claude-3-haiku", "gpt-4" }

\* the models clients of the Qwen router ask for
QwenRequestModelStrings ==
  { "qwen-max", "qwen-plus-latest", "qwen-turbo-latest", "qwen3-32b",
    "qwen3-32b-thinking", "qwen3-32b-nonthinking", "qwen-plus-thinking",
    "qwen-max-nonthinking" }

\* a field of the body that is true, false or not there
TriState == {"true", "false", "undefined"}

\* the character of s at position i, if there is one
At(s, i) == IF i \in 1..Len(s) THEN s[i] ELSE ""

\* String.prototype.slice(i - 1, j): the characters of s from position i to
\* position j, as far as s has them
Slice(s, i, j) ==
  LET last == IF j <= Len(s) THEN j ELSE Len(s)
  IN IF i > last THEN <<>> ELSE [k \in 1..(last - i + 1) |-> s[i + k - 1]]

\* the length of the run of digits of s that starts at position i
RECURSIVE DigitRun(_, _)
DigitRun(s, i) == IF At(s, i) \in Digit THEN 1 + DigitRun(s, i + 1) ELSE 0

ClaudeFlavors == {"sonnet", "opus", "haiku"}

\* the flavors that stand in s right after position q
FlavorsAt(s, q) ==
  {f \in ClaudeFlavors : Slice(s, q + 1, q + Len(S(f))) = S(f)}

\* the ways /^claude-(\d+)[.-]?(\d)?-(sonnet|opus|haiku)/i matches lower: the
\* length of the major, whether a separator and a minor are taken
ClaudeWays(lower) ==
  LET p == Len(S("claude-")) + 1
  IN IF ~StartsWith(lower, S("claude-")) THEN {}
     ELSE {w \in [k : 1..DigitRun(lower, p), sep : 0..1, min : 0..1] :
             /\ w.sep = 1 => At(lower, p + w.k) \in {".", "-"}
             /\ w.min = 1 => At(lower, p + w.k + w.sep) \in Digit
             /\ At(lower, p + w.k + w.sep + w.min) = "-"
             /\ FlavorsAt(lower, p + w.k + w.sep + w.min) # {}}

\* the way the regular expression engine finds first: the longest major, then
\* with a separator, then with a minor
FirstWay(ways) ==
  CHOOSE x \in ways :
    \A y \in ways : 4 * y.k + 2 * y.sep + y.min <= 4 * x.k + 2 * x.sep + x.min

\* the group (?:-(latest|\d+))? after position e
ClaudeRev(model, lower, e) ==
  IF At(lower, e + 1) # "-" THEN <<>>
  ELSE IF Slice(lower, e + 2, e + 1 + Len(S("latest"))) = S("latest")
  THEN Slice(model, e + 2, e + 1 + Len(S("latest")))
  ELSE Slice(model, e + 2, e + 1 + DigitRun(lower, e + 2))

\* the groups of the match that takes the way w and the flavor f
ClaudeGroups(model, lower, w, f) ==
  [ matched |-> TRUE,
    major |-> Slice(model, Len(S("claude-")) + 1, Len(S("claude-")) + w.k),
    minor |-> IF w.min = 1
              THEN Slice(model, Len(S("claude-")) + 1 + w.k + w.sep,
                         Len(S("claude-")) + 1 + w.k + w.sep)
              ELSE <<>>,
    flavor |-> Slice(model, Len(S("claude-")) + 2 + w.k + w.sep + w.min,
                     Len(S("claude-")) + 1 + w.k + w.sep + w.min + Len(S(f))),
    rev |-> ClaudeRev(model, lower,
                      Len(S("claude-")) + 1 + w.k + w.sep + w.min + Len(S(f))) ]

ClaudeGroupsOf(model, lower, w) ==
  ClaudeGroups(model, lower, w,
               CHOOSE f \in FlavorsAt(lower, Len(S("claude-")) + 1 + w.k + w.sep + w.min) :
                 TRUE)

ClaudeMatchOf(model, lower, ways) ==
  IF ways = {} THEN [matched |-> FALSE]
  ELSE ClaudeGroupsOf(model, lower, FirstWay(ways))

\* model.match(/^claude-(\d+)[.-]?(\d)?-(sonnet|opus|haiku)(?:-(latest|\d+))?/i)
ClaudeMatch(model) ==
  ClaudeMatchOf(model, ToLowerCase(model), ClaudeWays(ToLowerCase(model)))

\* const ver = minor ? `${major}.${minor}` : major
ClaudeVer(match) ==
  IF match.minor # <<>> THEN match.major \o S(".") \o match.minor
  ELSE match.major

\* the switch of maybeReassignModel on the version and the flavor
ReassignByVersion(model, ver, flavor, rev) ==
  IF ver \in {S("3"), S("3.0")}
  THEN CASE flavor = S("haiku") -> S("claude-3-haiku@20240307")
         [] flavor = S("opus") -> S("claude-3-opus@20240229")
         [] OTHER -> S("claude-3-sonnet@20240229")
  ELSE IF ver = S("3.5")
  THEN CASE flavor = S("haiku") -> S("claude-3-5-haiku@20241022")
         [] flavor = S("sonnet") /\ rev = S("20240620") ->
              S("claude-3-5-sonnet@20240620")
         [] OTHER -> S("claude-3-5-sonnet-v2@20241022")
  ELSE IF ver = S("3.7")
  THEN IF flavor = S("sonnet") THEN S("claude-3-7-sonnet@20250219")
       ELSE model
  ELSE S("claude-3-5-sonnet-v2@20241022")

ReassignByMatch(model, match) ==
  IF ~match.matched THEN S("claude-3-5-sonnet-v2@20241022")
  ELSE ReassignByVersion(model, ClaudeVer(match), match.flavor, match.rev)

\* maybeReassignModel of the GCP router: req.body.model afterwards
maybeReassignModel(model) ==
  IF StartsWith(model, S("claude-")) /\ Includes(model, S("@")) THEN model
  ELSE ReassignByMatch(model, ClaudeMatch(model))

\* handleThinkingCapability of the Qwen router: req.body afterwards
handleThinkingCapability(b) ==
  IF isThinkingVariant(b.model)
  THEN [b EXCEPT !.model = getBaseModelName(b.model), !.enable_thinking = "true"]
  ELSE IF isNonThinkingVariant(b.model)
  THEN [b EXCEPT !.model = getBaseModelName(b.model), !.enable_thinking = "false"]
  ELSE IF isQwenThinkingModel(b.model) /\ b.stream = "true"
  THEN LET b1 == IF b.enable_thinking = "undefined"
                 THEN [b EXCEPT !.enable_thinking = "false"] ELSE b
       IN IF b1.thinking_budget # "undefined" /\ b1.enable_thinking = "false"
          THEN [b1 EXCEPT !.enable_thinking = "true"]
          ELSE b1
  ELSE IF isQwenThinkingModel(b.model) /\ b.stream # "true"
  THEN [b EXCEPT !.enable_thinking = "false"]
  ELSE b

\* the bodies clients send
RequestBodies ==
  {[ router |-> "gcp", model |-> S(m), stream |-> "undefined",
     enable_thinking |-> "undefined", thinking_budget |-> "undefined" ] :
     m \in GcpRequestModelStrings}
  \cup {[ router |-> "qwen", model |-> S(m), stream |-> s, enable_thinking |-> e,
          thinking_budget |-> t ] :
          m \in QwenRequestModelStrings, s \in TriState, e \in TriState,
          t \in {"undefined", "1000"}}

InitBody ==
  \E b \in RequestBodies :
    /\ scn = Scenario(b.router, {"k1"}, {"r1"}, {}, 0, NoLimits)
    /\ now = 0
    /\ keys = [h \in {"k1"} |-> NewKey(b.router, h)]
    /\ heap = <<>>
    /\ reqs = [r \in {"r1"} |-> NoRequest]
    /\ queue = <<>>
    /\ markedAt = [h \in {"k1"} |-> -1]
    /\ order = <<>>
    /\ ev = Event("init", "none", "none", 0, "none", "none")
    /\ stream = NoStream
    /\ geo = NoCall
    /\ info = NoInfo
    /\ models = NoModels
    /\ body = [router |-> b.router, sent |-> b, body |-> b, before |-> b,
               applied |-> 0]

\* the afterTransform step of the GCP router's preprocessor
GcpPreprocess ==
  /\ body.router = "gcp"
  /\ body.applied < MaxApplications
  /\ body' = [body EXCEPT !.before = body.body,
                          !.body = [@ EXCEPT !.model = maybeReassignModel(@)],
                          !.applied = @ + 1]
  /\ ev' = Event("preprocess", "r1", "none", 0, "none", "none")
  /\ UNCHANGED <<scn, now, keys, heap, reqs, queue, markedAt, order, stream,
                 geo, info, models>>

\* the afterTransform step of the Qwen router's preprocessor
QwenPreprocess ==
  /\ body.router = "qwen"
  /\ body.applied = 0
  /\ body' = [body EXCEPT !.before = body.body,
                          !.body = handleThinkingCapability(@),
                          !.applied = @ + 1]
  /\ ev' = Event("preprocess", "r1", "none", 0, "none", "none")
  /\ UNCHANGED <<scn, now, keys, heap, reqs, queue, markedAt, order, stream,
                 geo, info, models>>

NextBody == GcpPreprocess \/ QwenPreprocess

SpecBody == InitBody /\ [][NextBody]_vars

(***************************************************************************)
(* Properties.                                                             *)
(***************************************************************************)
\* the last step was a get
GotKey == ev.op = "get"

\* the last step was an upstream response that a handler dealt with
Handled == ev.op = "res"

\* the last step was an Anthropic 429 of type rate_limit_error
Anthropic429 ==
  /\ Handled
  /\ service = "anthropic"
  /\ ev.status = 429
  /\ ev.type = "rate_limit_error"

\* C1: get never returns a key that is disabled at the moment of the call: the
\* key a dispatch has just been given is enabled, in the copy the request holds
\* and in the provider's record.
C1_GetSkipsDisabledKeys ==
  GotKey => ~reqs[ev.req].key.isDisabled /\ ~keys[ev.hash].isDisabled

\* a get that had a disabled key to avoid
C1_Witness == GotKey /\ \E h \in Hashes : keys[h].isDisabled

\* C2: after markRateLimited(k) at time t no get returns k before
\* t + RATE_LIMIT_LOCKOUT.
C2_NoGetDuringLockout ==
  GotKey => \/ markedAt[ev.hash] = -1
            \/ now >= markedAt[ev.hash] + RATE_LIMIT_LOCKOUT

\* C3: every key record satisfies isRevoked => isDisabled.
C3_RevokedImpliesDisabled ==
  \A h \in Hashes : keys[h].isRevoked => keys[h].isDisabled

\* C4: revocation is terminal: a key that is revoked stays revoked and disabled
\* (so that get cannot return it), whatever step comes next.
C4_RevocationIsTerminal ==
  [][\A h \in Hashes :
       keys[h].isRevoked => keys'[h].isRevoked /\ keys'[h].isDisabled]_vars

\* C5: a family removed from a key's modelFamilies stays removed: no step other
\* than a recheck adds a family to a key, so that two requests that lose
\* different families on one key leave both removed.
C5_RemovedFamilyStaysRemoved ==
  [][ev'.op # "recheck" =>
       \A h \in Hashes : keys'[h].modelFamilies \subseteq keys[h].modelFamilies]_vars

Passed == {r \in ReqIds : reqs[r].enq > 0}

ContextTokens(r) == reqs[r].promptTokens + reqs[r].outputTokens

\* C7, as claimed: every request that passes preprocessing has promptTokens +
\* outputTokens <= min(modelMax, proxyMax), whatever its dialect and its user
\* type, proxyMax being the limit of the deployment.
C7_ContextBoundForAll ==
  \A r \in Passed :
    ContextTokens(r) <= Min(ModelMax[reqs[r].model],
                            IF reqs[r].outboundApi = "openai-image"
                            THEN MAX_SAFE_INTEGER
                            ELSE DeploymentMax(reqs[r].outboundApi, scn.config))

\* C7, amended: a request of a dialect other than openai-image that passes
\* preprocessing has promptTokens + outputTokens <= modelMax, and <= the
\* deployment's limit unless its user is of type "special"; a request that
\* exceeds what applies to it is rejected with no queue entry and no dispatch.
C7_ContextBoundWhereEnforced ==
  \A r \in ReqIds :
    LET req == reqs[r]
        within == /\ ContextTokens(r) <= ModelMax[req.model]
                  /\ \/ req.userType = "special"
                     \/ ContextTokens(r) <= DeploymentMax(req.outboundApi, scn.config)
    IN /\ r \in Passed /\ req.outboundApi # "openai-image" => within
       /\ /\ req.st # "new"
          /\ HasTokenCounts(req)
          /\ req.outboundApi # "openai-image"
          /\ ~within
          => /\ r \notin Passed
             /\ req.attempts = 0
             /\ req.responses = <<400>>
             /\ \A i \in 1..Len(queue) : queue[i] # r

\* a request of a special user that passed above the deployment's limit, within
\* its model's limit
C7_Witness ==
  \E r \in Passed :
    /\ reqs[r].outboundApi # "openai-image"
    /\ reqs[r].userType = "special"
    /\ ContextTokens(r) > DeploymentMax(reqs[r].outboundApi, scn.config)
    /\ ContextTokens(r) <= ModelMax[reqs[r].model]

\* C8: for an upstream status >= 400 handleUpstreamErrors re-enqueues the
\* request or sends the error and throws HttpError (the Cohere and Moonshot
\* handlers may still be waiting to do so); usage is not counted for the
\* response and the client does not receive a 200.
C8_ErrorsNeverReturnNormally ==
  Handled /\ ev.status >= 400 =>
    /\ ev.out \in {"retry", "send", "delay"}
    /\ reqs[ev.req].counted = 0
    /\ \A i \in 1..Len(reqs[ev.req].responses) : reqs[ev.req].responses[i] # 200

FirstDispatch(r) ==
  IF \E i \in 1..Len(order) : order[i] = r
  THEN CHOOSE i \in 1..Len(order) : order[i] = r
  ELSE 0

\* C10: of two requests of one partition, the one enqueued first is the one
\* dispatched first; a re-enqueued request goes to the tail of the queue.
C10_PartitionFifo ==
  /\ \A r1, r2 \in Passed :
       /\ reqs[r1].modelFamily = reqs[r2].modelFamily
       /\ reqs[r1].enq < reqs[r2].enq
       /\ FirstDispatch(r2) > 0
       => FirstDispatch(r1) > 0 /\ FirstDispatch(r1) < FirstDispatch(r2)
  /\ Handled /\ ev.out = "retry" =>
       Len(queue) > 0 /\ queue[Len(queue)] = ev.req

\* two requests of one partition, both dispatched, one re-enqueued behind the
\* other
C10_Witness ==
  /\ Len(order) = 2
  /\ reqs[order[1]].modelFamily = reqs[order[2]].modelFamily
  /\ Handled /\ ev.out = "retry"
  /\ Len(queue) = 2

\* what the key pool's contract calls an eligible key
Eligible(key, t, family) ==
  /\ ~key.isDisabled
  /\ t >= key.rateLimitedUntil
  /\ family \in key.modelFamilies

EligibleKeys(family) == {h \in Hashes : Eligible(keys[h], now, family)}

\* C11: get fails with the no-keys error exactly when no key is eligible (not
\* disabled, now >= rateLimitedUntil, the family in modelFamilies): a get that
\* returns a key had an eligible key to return, a get that fails had none, and
\* a failed get leaves every key record as it was.
C11_GetFailsIffNoneEligible ==
  [][/\ ev'.op = "get" => EligibleKeys(reqs[ev'.req].modelFamily) # {}
     /\ ev'.op = "nokeys" =>
          EligibleKeys(reqs[ev'.req].modelFamily) = {} /\ keys' = keys]_vars

\* the hashes in lexicographic order, and a hash's place in it
HashOrder == <<"k1", "k2">>

HashRank(h) == CHOOSE i \in 1..Len(HashOrder) : HashOrder[i] = h

\* C12: get returns the eligible key with the smallest lastUsed, and among
\* eligible keys that tie on lastUsed the one whose hash is smallest.
C12_GetReturnsLeastRecentlyUsed ==
  [][ev'.op = "get" =>
       \A e \in EligibleKeys(reqs[ev'.req].modelFamily) :
         \/ keys[ev'.hash].lastUsed < keys[e].lastUsed
         \/ /\ keys[ev'.hash].lastUsed = keys[e].lastUsed
            /\ HashRank(ev'.hash) <= HashRank(e)]_vars

\* C13: a get that returns key k at time now sets k.lastUsed to now and
\* k.rateLimitedUntil to the larger of its previous value and now +
\* KEY_REUSE_DELAY, never shortening a lockout, and changes no other key.
C13_GetThrottlesOnlyItsKey ==
  [][ev'.op = "get" =>
       /\ keys'[ev'.hash].lastUsed = now
       /\ keys'[ev'.hash].rateLimitedUntil =
            IF keys[ev'.hash].rateLimitedUntil >= now + KEY_REUSE_DELAY
            THEN keys[ev'.hash].rateLimitedUntil
            ELSE now + KEY_REUSE_DELAY
       /\ keys'[ev'.hash].rateLimitedUntil >= keys[ev'.hash].rateLimitedUntil
       /\ \A k \in Hashes \ {ev'.hash} : keys'[k] = keys[k]]_vars

\* a get of a key whose lockout outlasts the reuse delay, beside another key
C13_Witness ==
  /\ GotKey
  /\ Hashes # {ev.hash}
  /\ keys[ev.hash].lastUsed = now
  /\ keys[ev.hash].rateLimitedUntil > now + KEY_REUSE_DELAY

\* C14: every key record has rateLimitedUntil >= rateLimitedAt, from
\* construction on, through every get and every markRateLimited.
C14_LockoutEndsAfterItStarts ==
  \A h \in Hashes : keys[h].rateLimitedUntil >= keys[h].rateLimitedAt

\* a key marked rate-limited after the clock has moved on
C14_Witness ==
  /\ Handled
  /\ now > 0
  /\ markedAt[ev.hash] = now
  /\ keys[ev.hash].rateLimitedAt = now
  /\ keys[ev.hash].rateLimitedUntil = now + RATE_LIMIT_LOCKOUT

\* what disable(key, reason) is to leave in the record
Disabled(key, reason) ==
  /\ key.isDisabled
  /\ key.isRevoked = (reason = "revoked")
  /\ TracksQuota(key.service) => key.isOverQuota = (reason = "quota")

\* C15: KeyPool.disable(key, reason) leaves the record with isDisabled,
\* isRevoked = (reason = 'revoked') and, where the provider tracks quota,
\* isOverQuota = (reason = 'quota'); and the writes are atomic: a key that a
\* step disables shows all of them for one reason in the state that follows.
C15_DisableWritesAllFields ==
  [][/\ \A h \in Hashes, reason \in {"quota", "revoked"} :
          LET ks == KeyPool_disable(keys, keys[h], reason)
          IN /\ Disabled(ks[h], reason)
             /\ \A k \in Hashes \ {h} : ks[k] = keys[k]
     /\ \A h \in Hashes :
          ~keys[h].isDisabled /\ keys'[h].isDisabled =>
            \E reason \in {"quota", "revoked"} : Disabled(keys'[h], reason)]_vars

\* a key of a provider that tracks quota, just disabled for its quota
C15_Witness ==
  /\ Handled
  /\ ev.status = 402
  /\ TracksQuota(service)
  /\ Disabled(keys[ev.hash], "quota")

\* the patches the handlers and recheck pass to update
Patches ==
  { [allowsMultimodality |-> FALSE],
    [requiresPreamble |-> TRUE],
    [isRevoked |-> TRUE],
    [isOverQuota |-> FALSE],
    [isOverQuota |-> FALSE, isDisabled |-> FALSE, lastChecked |-> 0],
    [modelFamilies |-> {"gemini-flash"}, isOverQuota |-> TRUE,
     overQuotaFamilies |-> 1] }

\* a hash no key has
UnknownHash == "k0"

\* C16: update(hash, patch) merges the patch field by field into the record of
\* that hash, applying it twice leaves the pool as applying it once does, and
\* it leaves the whole pool unchanged when no key has the hash.
C16_UpdateIsIdempotentMerge ==
  \A h \in Hashes \cup {UnknownHash}, p \in Patches :
    LET once == Provider_update(keys, h, p)
        twice == Provider_update(once, h, p)
    IN /\ twice = once
       /\ KeyPool_update(keys, [hash |-> h], p) = once
       /\ h \notin Hashes => once = keys
       /\ h \in Hashes =>
            /\ \A f \in DOMAIN p : once[h][f] = p[f]
            /\ \A f \in DOMAIN keys[h] \ DOMAIN p : once[h][f] = keys[h][f]
            /\ \A k \in Hashes \ {h} : once[k] = keys[k]

\* a pool a handler has just updated: the key lost its multimodal flag
C16_Witness ==
  /\ Handled
  /\ ev.status = 403
  /\ ev.out = "retry"
  /\ ~keys[ev.hash].allowsMultimodality

\* C17: the key a request holds is a value copy of the provider's record: when
\* a handler changes a collection of its copy in place (the Google AI quota
\* handler pushes onto req.key.overQuotaFamilies), that collection is not one
\* that a record of the provider holds, so the record does not change with it.
C17_CopyOwnsItsCollections ==
  [][\A r \in ReqIds :
       LET ref == reqs[r].key.overQuotaFamilies
       IN /\ ev'.op = "res"
          /\ ev'.req = r
          /\ ref # 0
          /\ heap'[ref] # heap[ref]
          => \A h \in Hashes : keys[h].overQuotaFamilies # ref]_vars

\* the family of a model the service serves
FamilyOf(model) ==
  LET x == CHOOSE x \in CtxRequestsOf(service) : x[1] = model
  IN ResolveModelFamily(service, x[2], S(model))

\* C18: for every model the proxy serves available(model) returns, without
\* failing, the number of keys that are not disabled, not rate-limited and
\* permit the model's family; available('all') returns the number of keys
\* that are not disabled and not rate-limited.
C18_AvailableCountsEligibleKeys ==
  ev.op = "available" =>
    /\ ev.out = "return"
    /\ ev.status =
         Cardinality({h \in Hashes :
                        /\ ~keys[h].isDisabled
                        /\ now >= keys[h].rateLimitedUntil
                        /\ \/ ev.type = "all"
                           \/ FamilyOf(ev.type) \in keys[h].modelFamilies})

\* a Google AI 429 body that says the quota is exhausted and not that the key
\* is dead
QuotaSignature(b) ==
  /\ b.json
  /\ b.status = "RESOURCE_EXHAUSTED"
  /\ b.message # "none"
  /\ ~TextFacts[b.message][b.details].keyDead429
  /\ TextFacts[b.message][b.details].quotaExhausted

\* C19: when a Google AI request receives a 429 RESOURCE_EXHAUSTED with a
\* quota-exhausted signature, its key loses the family getGoogleAIModelFamily
\* gives the request's model and no other, keeps the families it had, has that
\* family in overQuotaFamilies, is not disabled by it, and the request is
\* re-enqueued.
C19_QuotaRemovesOnlyTheRequestsFamily ==
  [][\A r \in ReqIds, b \in BodiesOf("google-ai") :
       /\ service = "google-ai"
       /\ ev'.op = "res" /\ ev'.status = 429 /\ ev'.req = r
       /\ QuotaSignature(b)
       /\ ProxyRes(r, 429, b)
       => LET h == ev'.hash
              family == getGoogleAIModelFamily(S(reqs[r].model))
          IN /\ keys'[h].modelFamilies = keys[h].modelFamilies \ {family}
             /\ keys'[h].overQuotaFamilies # 0
             /\ family \in heap'[keys'[h].overQuotaFamilies]
             /\ keys'[h].isDisabled = keys[h].isDisabled
             /\ ev'.out = "retry"
             /\ reqs'[r].st = "queued"]_vars

\* an upstream answer that says the key is invalid: a 401, or a 403 of a
\* service whose 403 means so (not Anthropic's refusal of multimodal input, not
\* AWS's refusal of a model ID or an error type it does not know)
InvalidKeyResponse(svc, statusCode, b) ==
  \/ statusCode = 401
  \/ /\ statusCode = 403
     /\ b.json
     /\ CASE svc = "anthropic" ->
               ~(ErrorType(b) = "permission_error" /\ Fact(ErrorOf(svc, b), "multimodal"))
          [] svc = "aws" ->
               \/ ErrorType(b) = "UnrecognizedClientException"
               \/ /\ ErrorType(b) = "AccessDeniedException"
                  /\ ~Fact(ErrorOf(svc, b), "modelAccess")
          [] OTHER -> svc \in {"mistral-ai", "gcp", "moonshot"}

\* C20: for every service, an upstream 401, or a 403 that signals an invalid
\* key, leaves the assigned key disabled and revoked, and the request is not
\* re-enqueued.
C20_InvalidKeyIsRevoked ==
  [][\A r \in ReqIds, statusCode \in {401, 403} :
       \A b \in BodiesFor(service, statusCode) :
         /\ ev'.op = "res" /\ ev'.status = statusCode /\ ev'.req = r
         /\ InvalidKeyResponse(service, statusCode, b)
         /\ ProxyRes(r, statusCode, b)
         => /\ keys'[ev'.hash].isDisabled
            /\ keys'[ev'.hash].isRevoked
            /\ ev'.out # "retry"
            /\ reqs'[r].st # "queued"]_vars


\* the state of a key that the error handling may change
KeyState(key) ==
  [ isDisabled |-> key.isDisabled, isRevoked |-> key.isRevoked,
    isOverQuota |-> key.isOverQuota, modelFamilies |-> key.modelFamilies,
    rateLimitedAt |-> key.rateLimitedAt,
    rateLimitedUntil |-> key.rateLimitedUntil ]

\* the last response written to the client of a request
LastResponse(req) == req.responses[Len(req.responses)]

\* C21: for every service, an upstream 404 is surfaced to the client as a 404
\* error payload and leaves the state of every key unchanged.
C21_NotFoundIsSurfaced ==
  [][ev'.op = "res" /\ ev'.status = 404
       => /\ reqs'[ev'.req].st = "done"
          /\ reqs'[ev'.req].responses # <<>>
          /\ LastResponse(reqs'[ev'.req]) = 404
          /\ \A h \in Hashes : KeyState(keys'[h]) = KeyState(keys[h])]_vars


\* an error body that reports content filtering or moderation
ContentFiltered(b) ==
  b.json /\ b.code \in {"content_policy_violation", "content_filter"}

\* C22: for every service, an upstream 400 caused by content filtering or
\* moderation is passed to the client, calls refundLastAttempt(req) exactly
\* once, does not re-enqueue the request and leaves key state unchanged.
C22_FilteredRequestIsRefunded ==
  [][\A r \in ReqIds, b \in BodiesOf(service) :
       /\ ev'.op = "res" /\ ev'.status = 400 /\ ev'.req = r
       /\ ContentFiltered(b)
       /\ ProxyRes(r, 400, b)
       => /\ reqs'[r].refunds = reqs[r].refunds + 1
          /\ reqs'[r].st = "done"
          /\ LastResponse(reqs'[r]) = 400
          /\ reqs'[r].reenq = reqs[r].reenq
          /\ \A h \in Hashes : KeyState(keys'[h]) = KeyState(keys[h])]_vars


\* an OpenAI-style rate-limit body: error.type is 'requests' or 'tokens'
OpenAIRateLimit(b) == b.json /\ b.type \in {"requests", "tokens"}

\* the key of the step is marked rate-limited by it
MarkedByStep(h) ==
  /\ keys'[h].rateLimitedAt = now
  /\ keys'[h].rateLimitedUntil = now + RATE_LIMIT_LOCKOUT

\* the request is back in the queue and nothing was written to its client
RequeuedByStep(r) ==
  /\ ev'.out = "retry"
  /\ reqs'[r].st = "queued"
  /\ reqs'[r].reenq = reqs[r].reenq + 1
  /\ reqs'[r].responses = reqs[r].responses

\* the error of the step is the answer to the client, the request not queued
SurfacedByStep(r, statusCode) ==
  /\ ev'.out = "send"
  /\ reqs'[r].st = "done"
  /\ reqs'[r].reenq = reqs[r].reenq
  /\ reqs'[r].responses = Append(reqs[r].responses, statusCode)

ModelAccessDenied(b) ==
  /\ b.json
  /\ ErrorType(b) = "AccessDeniedException"
  /\ Fact(ErrorOf("aws", b), "modelAccess")

\* C24: on an AWS 403 AccessDeniedException that names a specific model ID the
\* key is narrowed so that it is no longer selected for that model (the
\* request's family leaves its modelFamilies), and the key stays enabled.
C24_ModelAccessErrorNarrowsKey ==
  [][\A r \in ReqIds, b \in BodiesOf(service) :
       /\ service = "aws"
       /\ ev'.op = "res" /\ ev'.status = 403 /\ ev'.req = r
       /\ ModelAccessDenied(b)
       /\ ProxyRes(r, 403, b)
       => /\ reqs[r].modelFamily \notin keys'[ev'.hash].modelFamilies
          /\ ~keys'[ev'.hash].isDisabled]_vars


\* the terminators written to the client of the stream
Terminators ==
  {i \in 1..Len(stream.client) : stream.client[i] \in {DoneEvent, ErrorEvent}}

\* C25: every streaming request ends with exactly one terminator to the client,
\* a success terminator or one error event, never both and never none, also
\* when the SSE transformer fails on an event; it is the last thing written and
\* the client response is ended.
C25_ExactlyOneTerminator ==
  /\ Cardinality(Terminators) <= 1
  /\ stream.phase \in {"closed", "finished"} =>
       /\ Terminators = {Len(stream.client)}
       /\ stream.writableEnded
       /\ stream.client[Len(stream.client)] =
            IF stream.failed THEN ErrorEvent ELSE DoneEvent

\* a stream whose transformer failed after it had delivered content, finished
C25_Witness ==
  /\ stream.phase = "finished"
  /\ stream.failed
  /\ Len(stream.client) > 1
  /\ stream.client[Len(stream.client)] = ErrorEvent
  /\ stream.writableEnded


\* the events of the stream that open a message: delta = {role: 'assistant',
\* content: ''}
InitialEvents ==
  {i \in 1..Len(stream.client) : stream.client[i].delta = "role"}

ContentEvents ==
  {i \in 1..Len(stream.client) : stream.client[i].delta = "content"}

\* C26: in every stream delivered to an OpenAI-dialect client exactly one
\* initial event, with delta = {role: 'assistant', content: ''}, is emitted,
\* and it precedes the first content event, whatever the upstream dialect and
\* whether or not the first upstream messages are unmapped or dropped.
C26_OneInitialEventBeforeContent ==
  stream.phase # "none" /\ stream.outputFormat = "openai" /\ ContentEvents # {}
  => /\ Cardinality(InitialEvents) = 1
     /\ \A i \in InitialEvents, j \in ContentEvents : i < j


\* C29: for Cohere and Moonshot every upstream 429 (with a JSON error body)
\* marks the assigned key rate-limited and adds one to req.retryCount; on the
\* 1st, 2nd and 3rd 429 of a request the handler waits and the request is then
\* re-enqueued, nothing being written to the client; on the 4th the 429 is
\* surfaced; so the request reaches the upstream at most 4 times.
C29_ThreeRetriesThenSurfaced ==
  [][\A r \in ReqIds :
       service \in {"cohere", "moonshot"} /\ ev'.op = "res" /\ ev'.req = r
       /\ ev'.status = 429
       => /\ reqs[r].st = "inflight" /\ ev'.type # "none" =>
               /\ MarkedByStep(ev'.hash)
               /\ reqs'[r].retryCount = reqs[r].retryCount + 1
               /\ IF reqs[r].attempts <= HANDLER_RETRIES
                  THEN /\ ev'.out = "delay"
                       /\ reqs'[r].responses = reqs[r].responses
                  ELSE SurfacedByStep(r, 429)
          /\ reqs[r].st = "delay" => RequeuedByStep(r)
          /\ reqs'[r].attempts <= HANDLER_RETRIES + 1]_vars


\* what a key has been credited with under a family
UsageOf(key, family) ==
  IF family \in DOMAIN key.tokenUsage THEN key.tokenUsage[family]
  ELSE [input |-> 0, output |-> 0]

\* C30: incrementUsage runs once after every upstream attempt, whether the
\* attempt succeeded or failed: the step that ends an attempt credits the
\* assigned key with {input: promptTokens, output: outputTokens} under the
\* request's resolved model family.
C30_UsageCountedAfterEveryAttempt ==
  [][\A r \in ReqIds :
       reqs[r].st = "inflight" /\ ev'.op = "res" /\ ev'.req = r
       => LET family == reqs[r].modelFamily
              before == UsageOf(keys[ev'.hash], family)
              after == UsageOf(keys'[ev'.hash], family)
          IN /\ reqs'[r].counted = reqs[r].counted + 1
             /\ after.input = before.input + reqs[r].promptTokens
             /\ after.output = before.output + reqs[r].outputTokens]_vars


\* the last step was a call of the geoblock middleware
Geoblocked == geo.called

\* the lookup gave a country
HasCountry == geo.lookup \in {"RU", "BY", "US"}

\* the list of allowed countries: the configured one, or RU when none is
ListOrDefault ==
  IF geo.config.GEOBLOCK_ALLOWED_COUNTRIES.defined
  THEN geo.config.GEOBLOCK_ALLOWED_COUNTRIES.countries ELSE {"RU"}

\* C27: geoblockMiddleware answers 403 with the country code, without calling
\* next, exactly when geoblocking is enabled, the client IP is present and not
\* private, and the lookup yields a country outside the allowed list; in every
\* other case (disabled, no IP, private IP, lookup null, no country, lookup
\* throwing, allowed country) it calls next() exactly once and sends nothing.
C27_BlocksExactlyDisallowedCountries ==
  Geoblocked =>
    IF /\ geo.config.GEOBLOCK_ENABLED
       /\ geo.ip # "undefined"
       /\ HasCountry
       /\ geo.lookup \notin ListOrDefault
    THEN geo.result = GeoResult(0, 403, geo.lookup, FALSE)
    ELSE geo.result = CallsNext


\* C28: when GEOBLOCK_ALLOWED_COUNTRIES is empty or undefined the allowed list
\* is ['RU']: a request resolved to RU is admitted and a request resolved to
\* any other country is blocked with 403.
C28_DefaultAllowedCountryIsRU ==
  /\ Geoblocked
  /\ geo.config.GEOBLOCK_ENABLED
  /\ geo.config.GEOBLOCK_ALLOWED_COUNTRIES.countries = {}
  /\ geo.ip # "undefined"
  /\ HasCountry
  => geo.result = IF geo.lookup = "RU" THEN CallsNext
                  ELSE GeoResult(0, 403, geo.lookup, FALSE)


\* C31: the tracked mutations of a request are reverted when an upstream
\* response arrives, before a handler can re-enqueue it: a request that is not
\* with the upstream carries none, and a request that was re-enqueued any
\* number of times carries the mutations of one attempt when it is signed again.
C31_MutationsDoNotAccumulate ==
  \A r \in ReqIds :
    reqs[r].mutations = IF reqs[r].st = "inflight" THEN 1 ELSE 0

\* a request signed for its third attempt
C31_Witness ==
  /\ GotKey
  /\ reqs[ev.req].reenq = 2
  /\ reqs[ev.req].attempts = 3
  /\ reqs[ev.req].st = "inflight"
  /\ reqs[ev.req].mutations = 1

\* C32: the family getModelFamilyForRequest resolves for a request belongs to
\* the request's service (MODEL_FAMILY_SERVICE[family] = req.service) and is a
\* family the keys of that service carry, whatever the service.
C32_FamilyBelongsToService ==
  \A r \in ReqIds :
    reqs[r].modelFamily # "none"
      => /\ reqs[r].modelFamily \in DOMAIN MODEL_FAMILY_SERVICE
         /\ MODEL_FAMILY_SERVICE[reqs[r].modelFamily] = service
         /\ reqs[r].modelFamily \in InitialFamilies(service)

\* the traffic fields of a page
TrafficFields(page) ==
  {page.proompts, page.tookens, page.proomptersNow, page.usage,
   page.proomptersInQueue, page.estimatedQueueTime}

\* C33: with staticServiceInfo enabled, a call of buildInfo that is not for the
\* admin returns none of the traffic fields, whatever call for the admin was
\* made in the two seconds before it; the page it returns is built from its own
\* baseUrl and the pool as it is.
C33_StaticInfoHidesTraffic ==
  (info.called /\ ~info.forAdmin /\ info.at = now /\ ev.op = "info"
     /\ info.config.staticServiceInfo)
    => /\ info.result # Deleted
       /\ TrafficFields(info.result) = {Deleted}
       /\ info.result.endpoints = info.baseUrl
       /\ info.result.activeKeys = Field(1)

\* a page without traffic fields, returned less than two seconds after a page
\* for the admin, the pool having served prompts
C33_Witness ==
  /\ info.called /\ ~info.forAdmin /\ ev.op = "info"
  /\ info.config.staticServiceInfo
  /\ info.adminAt >= 0
  /\ info.at - info.adminAt < CACHE_TTL
  /\ info.pool.proompts > 0
  /\ TrafficFields(info.result) = {Deleted}

\* the step answers a request for a models list
ModelsAnswered == ev'.op \in {"models", "modelsFetched"}

\* the step answers from a cache that is less than 60 s old
AnsweredFresh ==
  ev'.op = "models" /\ now - models.modelsCacheTime < MODELS_CACHE_TTL

CacheKept ==
  /\ models'.modelsCache = models.modelsCache
  /\ models'.modelsCacheTime = models.modelsCacheTime

CacheRestamped ==
  /\ models'.modelsCache = models'.returned
  /\ models'.modelsCacheTime = now

\* the list could be computed: the service is configured, the Qwen API answered
\* with data
ListComputable ==
  IF models.router = "qwen"
  THEN ev'.op = "modelsFetched" /\ models'.upstream.kind \in {"object", "array"}
  ELSE models.configured

\* C34 as stated: a call within 60 s of the last refresh returns the cached
\* value unchanged, a call after that recomputes and restamps the cache, and no
\* call returns the unset (null) cache.
C34_StaleCacheAlwaysRestamped ==
  [][ModelsAnswered
       => /\ models'.returned # Null
          /\ IF AnsweredFresh
             THEN models'.returned = models.modelsCache /\ CacheKept
             ELSE CacheRestamped]_vars

\* C34: a call within 60 s of the last refresh returns the cached value
\* unchanged; a call after that recomputes the list and, when the list could be
\* computed, restamps the cache with it, and otherwise returns an empty list and
\* leaves the cache as it is; no call returns the unset (null) cache.
C34_CacheRefreshedWhenStale ==
  [][ModelsAnswered
       => /\ models'.returned # Null
          /\ IF AnsweredFresh
             THEN models'.returned = models.modelsCache /\ CacheKept
             ELSE IF ListComputable THEN CacheRestamped
             ELSE models'.returned = List(<<>>) /\ CacheKept]_vars

\* a list answered from the cache, some time after the refresh that filled it
C34_Witness ==
  /\ ev.op = "models"
  /\ ev.out = "cached"
  /\ models.returned = models.modelsCache
  /\ models.modelsCache # Null
  /\ models.modelsCache.data # <<>>
  /\ models.modelsCacheTime >= ProcessStart + MODELS_CACHE_TTL
  /\ now > models.modelsCacheTime

\* C35: serving the models list leaves the key pool as it is: no key's
\* lastUsed, rateLimitedAt or rateLimitedUntil changes.
C35_ModelsListLeavesPoolUnchanged ==
  [][ev'.op \in {"models", "modelsGet", "modelsFetched"} => keys' = keys]_vars

\* the IDs of a list, in order
ListedIds(list) == [i \in 1..Len(list.data) |-> list.data[i].id]

\* how often an ID is listed
TimesListed(list, id) ==
  Cardinality({i \in 1..Len(list.data) : list.data[i].id = id})

\* the Qwen3 base models of the last listing: those the API returned and those
\* of the known-models list
Qwen3BaseModels ==
  {id \in {models.upstream.data[i].id : i \in 1..Len(models.upstream.data)}
          \cup {S(knownQwenModels[i]) : i \in 1..Len(knownQwenModels)} :
     IsQwen3Base(id)}

\* C39: in the Qwen listing every Qwen3 base model, returned by the API or
\* known, is listed as its -thinking and its -nonthinking variant, once each,
\* and never under its own ID.
C39_Qwen3ListedAsVariantsOnly ==
  (ev.op = "modelsFetched" /\ ev.out = "computed")
    => \A id \in Qwen3BaseModels :
         /\ TimesListed(models.returned, id) = 0
         /\ TimesListed(models.returned, id \o S("-thinking")) = 1
         /\ TimesListed(models.returned, id \o S("-nonthinking")) = 1

\* the Azure content moderation event the transformer drops
DroppedAzureEvent(e) ==
  stream.inputFormat = "openai" /\ e.n = 1 /\ e.kind = "filter"

\* an event the transformer does not map leaves the client's side as it is and
\* the stream open
UnmappedEventIsSkipped ==
  ev'.type = "ping"
    => /\ stream'.client = stream.client
       /\ stream'.phase = "open"
       /\ ~stream'.failed
       /\ ~stream'.writableEnded

\* C36 as stated: an upstream event the transformer does not map produces no
\* client event and neither ends nor fails the stream, and every upstream event
\* but the dropped Azure event is emitted once, in arrival order, as
\* originalMessage.
C36_EveryEventOnSideChannel ==
  [][ev'.op = "chunk"
       => /\ UnmappedEventIsSkipped
          /\ stream'.side =
               SelectSeq(stream'.upstream, LAMBDA e : ~DroppedAzureEvent(e))]_vars

\* C36: an upstream event the transformer does not map produces no client
\* event and neither ends nor fails the stream, and every upstream event but
\* the dropped Azure event and an event whose transformation throws (which
\* fails the stream) is emitted once, in arrival order, as originalMessage.
C36_TransformedEventsOnSideChannel ==
  [][ev'.op = "chunk"
       => /\ UnmappedEventIsSkipped
          /\ stream'.side =
               SelectSeq(stream'.upstream, LAMBDA e :
                           ~DroppedAzureEvent(e) /\ e.kind # "bad")]_vars

\* a ping after a dropped Azure event and a content event: two events on the
\* side channel, one at the client
C36_Witness ==
  /\ ev.op = "chunk"
  /\ ev.type = "ping"
  /\ stream.phase = "open"
  /\ Len(stream.upstream) = 3
  /\ stream.upstream[1].kind = "filter"
  /\ Len(stream.side) = 2
  /\ stream.side[2] = stream.upstream[3]

\* an error body whose code is billing_hard_limit_reached
BillingHardLimit(b) == b.json /\ b.code = "billing_hard_limit_reached"

\* C37: an upstream 400 whose error code is billing_hard_limit_reached is quota
\* exhaustion of the assigned key, whatever error.type comes with it: the key is
\* disabled with isOverQuota and without isRevoked, the error is the answer to
\* the client and the request is not re-enqueued.
C37_BillingHardLimitDisablesKey ==
  [][\A r \in ReqIds, b \in BodiesOf(service) :
       /\ service \in {"openai", "mistral-ai", "azure"}
       /\ ev'.op = "res" /\ ev'.status = 400 /\ ev'.req = r
       /\ BillingHardLimit(b)
       /\ ProxyRes(r, 400, b)
       => /\ keys'[ev'.hash].isDisabled
          /\ keys'[ev'.hash].isOverQuota
          /\ ~keys'[ev'.hash].isRevoked
          /\ SurfacedByStep(r, 400)]_vars

\* the model IDs the GCP models endpoint lists
GcpListedIds == {S(GcpVariantModels[i]) : i \in 1..Len(GcpVariantModels)}

\* C38: maybeReassignModel leaves req.body.model equal to one of the model IDs
\* the GCP models endpoint lists; a GCP ID is kept as it is; applying it a
\* second time changes nothing.
C38_ReassignedModelIsGcpId ==
  (body.router = "gcp" /\ body.applied >= 1)
    => /\ body.body.model \in GcpListedIds
       /\ body.sent.model \in GcpListedIds => body.body.model = body.sent.model
       /\ body.applied = 2 => body.body.model = body.before.model

\* C40: after handleThinkingCapability a request to a thinking-capable Qwen
\* model that does not stream (stream is not true) has enable_thinking = false,
\* whatever suffix the model had and whatever enable_thinking and
\* thinking_budget the client sent.
C40_NonStreamingDisablesThinking ==
  (body.router = "qwen" /\ body.applied = 1
     /\ isQwenThinkingModel(body.sent.model) /\ body.sent.stream # "true")
    => body.body.enable_thinking = "false"

====
